---- MODULE Spec2Model ----
(***************************************************************************)
(* Model of the HAT EEPROM image builder (crate rpi-hat-eep): the atom     *)
(* stream Eep with its ordering state machine (Eep::push), the on-demand   *)
(* header and the atom encoder (ToBytes), and the GPIO map / vendor data   *)
(* payload encoders.                                                       *)
(*                                                                         *)
(* Representation of Vec<EepAtom>: the vector is held run-length           *)
(* compressed.  A run [atype, count, data, n] stands for n consecutive     *)
(* elements with the same type and payload whose count fields are          *)
(* count, count+1, ... (as u16).  AtomAt gives the element at an index,    *)
(* PushBack is Vec::push.  The compression is lossless; it only keeps      *)
(* vectors of 65537 elements small enough to enumerate.                    *)
(***************************************************************************)
EXTENDS Integers, Sequences, FiniteSets, TLC

VARIABLES
    atoms,    \* Eep.atoms
    result,   \* what the last call of Eep::push returned
    call,     \* history: the atom passed to that call and Eep.atoms before it
    buf,      \* the caller's Vec<u8>
    ser,      \* history: buf and the object as they were when to_bytes was called
    gmap,     \* an EepAtomGpioMapData under construction
    gres,     \* what the last call of EepAtomGpioMapData::set returned
    gcall,    \* history: the arguments of that call and the map before it
    gpioPin,  \* a GpioPin
    packed,   \* what GpioPin::to_u8 returned for it
    obj,      \* an object that implements ToBytes
    config,   \* a value of the configuration layer: a raw definition, a bank
              \* definition, or the arguments of a constructor
    outcome   \* what the operation applied to it returned

eepVars == << atoms, result, call >>
gpioVars == << gmap, gres, gcall, gpioPin, packed >>
cfgVars == << config, outcome >>
vars ==
    << atoms, result, call, buf, ser, gmap, gres, gcall, gpioPin, packed, obj,
       config, outcome >>

(***************************************************************************)
(* Machine integers                                                        *)
(***************************************************************************)
U8_MAX == 255
U16_MAX == 65535

Pow2(n) == 2 ^ n

AsU8(x) == x % 256
AsU16(x) == x % 65536
\* `as u32`: exact for every value below 2^31, the largest the checker's
\* integers hold (a stream of 65537 atoms encodes to a few MB at most here)
AsU32(x) == x

RECURSIVE BitAnd(_, _)
BitAnd(a, b) ==
    IF a = 0 \/ b = 0 THEN 0
    ELSE (IF a % 2 = 1 /\ b % 2 = 1 THEN 1 ELSE 0) + 2 * BitAnd(a \div 2, b \div 2)

RECURSIVE BitOr(_, _)
BitOr(a, b) ==
    IF a = 0 THEN b
    ELSE IF b = 0 THEN a
    ELSE (IF a % 2 = 1 \/ b % 2 = 1 THEN 1 ELSE 0) + 2 * BitOr(a \div 2, b \div 2)

RECURSIVE BitXor(_, _)
BitXor(a, b) ==
    IF a = 0 THEN b
    ELSE IF b = 0 THEN a
    ELSE (IF a % 2 # b % 2 THEN 1 ELSE 0) + 2 * BitXor(a \div 2, b \div 2)

\* u8 << k
Shl8(x, k) == AsU8(x * Pow2(k))

\* uN::to_le_bytes
LeBytes16(x) == << x % 256, (x \div 256) % 256 >>
LeBytes32(x) ==
    << x % 256, (x \div 256) % 256, (x \div 65536) % 256, (x \div 16777216) % 256 >>

\* slice[from..] with a 0-based start
Tail0(s, from) == SubSeq(s, from + 1, Len(s))

RECURSIVE Reverse(_)
Reverse(s) == IF s = << >> THEN << >> ELSE Append(Reverse(Tail(s)), Head(s))

(***************************************************************************)
(* CRC-16/ARC (crc::CRC_16_ARC: poly 0x8005 reflected = 0xA001, init 0,    *)
(* refin/refout, xorout 0)                                                 *)
(***************************************************************************)
CRC_POLY_REFLECTED == 40961

\* k shift steps of the bitwise algorithm on the running value
RECURSIVE CrcBits(_, _)
CrcBits(crc, k) ==
    IF k = 0 THEN crc
    ELSE LET c == CrcBits(crc, k - 1)
         IN  IF c % 2 = 1 THEN BitXor(c \div 2, CRC_POLY_REFLECTED) ELSE c \div 2

\* the 256-entry lookup table of the table-driven implementation
CrcTable == [x \in 0 .. 255 |-> CrcBits(x, 8)]

\* one table step per byte, over bytes[lo .. hi] in order.  The range is
\* halved and the register after the first half computed before the second
\* half is entered, which keeps the evaluation stack flat for long inputs.
RECURSIVE CrcUpdate(_, _, _, _)
CrcUpdate(crc, bytes, lo, hi) ==
    IF lo > hi THEN crc
    ELSE IF lo = hi
    THEN AsU16(BitXor(CrcTable[BitAnd(BitXor(crc, bytes[lo]), 255)], crc \div 256))
    ELSE LET mid == (lo + hi) \div 2
             c == CrcUpdate(crc, bytes, lo, mid)
         IN  IF c <= U16_MAX THEN CrcUpdate(c, bytes, mid + 1, hi)
             ELSE CrcUpdate(AsU16(c), bytes, mid + 1, hi)

Crc16Arc(bytes) == CrcUpdate(0, bytes, 1, Len(bytes))

(***************************************************************************)
(* gpio_map.rs: pins and the GPIO map payload                              *)
(***************************************************************************)
BANK0_GPIOS == 28
BANK1_GPIOS == 18

\* GpioFsel / GpioPull / GpioDrive / GpioSlew / GpioHysteresis / GpioBackPower
\* discriminants (`self.x as u8`)
\* mutant of FselCode: the variants numbered in declaration order
FselCodeOrdinal(f) ==
    CASE f = "Input" -> 0 [] f = "Output" -> 1
      [] f = "Alt0" -> 2 [] f = "Alt1" -> 3 [] f = "Alt2" -> 4
      [] f = "Alt3" -> 5 [] f = "Alt4" -> 6 [] f = "Alt5" -> 7

FselCode(f) ==
    CASE f = "Input" -> 0 [] f = "Output" -> 1
      [] f = "Alt0" -> 4 [] f = "Alt1" -> 5 [] f = "Alt2" -> 6
      [] f = "Alt3" -> 7 [] f = "Alt4" -> 3 [] f = "Alt5" -> 2

PullCode(p) ==
    CASE p = "Default" -> 0 [] p = "Up" -> 1 [] p = "Down" -> 2 [] p = "NoPull" -> 3

GpioFsel == {"Input", "Output", "Alt0", "Alt1", "Alt2", "Alt3", "Alt4", "Alt5"}
GpioPull == {"Default", "Up", "Down", "NoPull"}
GpioDrive == 0 .. 8
GpioSlew == 0 .. 2
GpioHysteresis == 0 .. 2
GpioBackPower == 0 .. 2

GpioPinNew(fsel, pull, used) == [fsel |-> fsel, pull |-> pull, used |-> used]

GpioPinDefault == GpioPinNew("Input", "Default", FALSE)

\* mutant of GpioPinToU8: used is shifted to bit 6
GpioPinToU8UsedBit6(pin) ==
    BitOr(BitOr(BitAnd(FselCode(pin.fsel), 7),
                Shl8(BitAnd(PullCode(pin.pull), 3), 5)),
          Shl8(IF pin.used THEN 1 ELSE 0, 6))

GpioPinToU8(pin) ==
    BitOr(BitOr(BitAnd(FselCode(pin.fsel), 7),
                Shl8(BitAnd(PullCode(pin.pull), 3), 5)),
          Shl8(IF pin.used THEN 1 ELSE 0, 7))

\* mutant of GpioMapNew: BANK0_GPIOS pins for either bank
GpioMapNewBank0Size(bank, drive, slew, hysteresis, back_power) ==
    [kind |-> "gpio", bank |-> bank, drive |-> drive, slew |-> slew,
     hysteresis |-> hysteresis, back_power |-> back_power,
     gpios |-> [i \in 1 .. BANK0_GPIOS |-> GpioPinDefault]]

GpioMapNew(bank, drive, slew, hysteresis, back_power) ==
    [kind |-> "gpio", bank |-> bank, drive |-> drive, slew |-> slew,
     hysteresis |-> hysteresis, back_power |-> back_power,
     gpios |-> IF bank = "Bank0" THEN [i \in 1 .. BANK0_GPIOS |-> GpioPinDefault]
               ELSE [i \in 1 .. BANK1_GPIOS |-> GpioPinDefault]]

\* mutant of GpioMapSet: the index is not remapped for Bank1
GpioMapSetNoRemap(map, n, gpio) ==
    IF n >= Len(map.gpios)
    THEN [map |-> map, ok |-> FALSE, gpio_no |-> n, bank |-> map.bank]
    ELSE [map |-> [map EXCEPT !.gpios[n + 1] = gpio], ok |-> TRUE,
          gpio_no |-> n, bank |-> map.bank]

\* mutant of GpioMapSet: a pin that was set before is not replaced
GpioMapSetKeepsFirst(map, n, gpio) ==
    IF map.bank = "Bank1" /\ n < BANK0_GPIOS
    THEN [map |-> map, ok |-> FALSE, gpio_no |-> n, bank |-> map.bank]
    ELSE LET m == IF map.bank = "Bank0" THEN n ELSE n - BANK0_GPIOS
         IN  IF m >= Len(map.gpios)
             THEN [map |-> map, ok |-> FALSE, gpio_no |-> m, bank |-> map.bank]
             ELSE IF map.gpios[m + 1] # GpioPinDefault
             THEN [map |-> map, ok |-> TRUE, gpio_no |-> n, bank |-> map.bank]
             ELSE [map |-> [map EXCEPT !.gpios[m + 1] = gpio], ok |-> TRUE,
                   gpio_no |-> n, bank |-> map.bank]

\* EepAtomGpioMapData::set; returns the map after the call and the Result
GpioMapSet(map, n, gpio) ==
    IF map.bank = "Bank1" /\ n < BANK0_GPIOS
    THEN [map |-> map, ok |-> FALSE, gpio_no |-> n, bank |-> map.bank]
    ELSE LET m == IF map.bank = "Bank0" THEN n ELSE n - BANK0_GPIOS
         IN  IF m >= Len(map.gpios)
             THEN [map |-> map, ok |-> FALSE, gpio_no |-> m, bank |-> map.bank]
             ELSE [map |-> [map EXCEPT !.gpios[m + 1] = gpio], ok |-> TRUE,
                   gpio_no |-> n, bank |-> map.bank]

\* mutant of GpioMapLen: the size of a Bank0 map, whatever the bank
GpioMapLenBank0(map) == 1 + 1 + BANK0_GPIOS

GpioMapLen(map) == 1 + 1 + Len(map.gpios)

\* mutant of GpioMapToBytes: hysteresis is shifted by 5
GpioMapToBytesHystShift5(map, b) ==
    LET bank_drive == BitOr(BitOr(BitAnd(map.drive, 15),
                                  Shl8(BitAnd(map.slew, 3), 4)),
                            Shl8(BitAnd(map.hysteresis, 3), 5))
        back_power == BitAnd(map.back_power, 3)
    IN  b \o << bank_drive, back_power >>
          \o [i \in 1 .. Len(map.gpios) |-> GpioPinToU8(map.gpios[i])]

GpioMapToBytes(map, b) ==
    LET bank_drive == BitOr(BitOr(BitAnd(map.drive, 15),
                                  Shl8(BitAnd(map.slew, 3), 4)),
                            Shl8(BitAnd(map.hysteresis, 3), 6))
        back_power == BitAnd(map.back_power, 3)
    IN  b \o << bank_drive, back_power >>
          \o [i \in 1 .. Len(map.gpios) |-> GpioPinToU8(map.gpios[i])]

(***************************************************************************)
(* lib.rs: vendor data, device tree data, custom data                      *)
(***************************************************************************)
\* mutant of VendorDataNew: strings of up to 256 bytes are let through
VendorDataNewMax256(uuid, pid, pver, vstr, pstr) ==
    IF Len(vstr) > U8_MAX + 1 THEN [ok |-> FALSE, err |-> "Vendor string to long"]
    ELSE IF Len(pstr) > U8_MAX + 1 THEN [ok |-> FALSE, err |-> "Product string to long"]
    ELSE [ok |-> TRUE,
          data |-> [kind |-> "vendor", uuid |-> uuid, pid |-> pid, pver |-> pver,
                    vstr |-> vstr, pstr |-> pstr]]

\* EepAtomVendorData::new; strings are sequences of bytes
VendorDataNew(uuid, pid, pver, vstr, pstr) ==
    IF Len(vstr) > U8_MAX THEN [ok |-> FALSE, err |-> "Vendor string to long"]
    ELSE IF Len(pstr) > U8_MAX THEN [ok |-> FALSE, err |-> "Product string to long"]
    ELSE [ok |-> TRUE,
          data |-> [kind |-> "vendor", uuid |-> uuid, pid |-> pid, pver |-> pver,
                    vstr |-> vstr, pstr |-> pstr]]

VendorDataLen(d) == 16 + 2 + 2 + 1 + 1 + Len(d.vstr) + Len(d.pstr)

\* u8::try_from(self.vstr.len()).unwrap() / ..pstr..: to_bytes panics when a
\* length does not fit a u8
VendorDataToBytesPanics(d) == Len(d.vstr) > U8_MAX \/ Len(d.pstr) > U8_MAX

\* mutant of VendorDataToBytes: the UUID is written in its own byte order
VendorDataToBytesUuidForward(d, b) ==
    b \o d.uuid \o LeBytes16(d.pid) \o LeBytes16(d.pver)
      \o << Len(d.vstr), Len(d.pstr) >> \o d.vstr \o d.pstr

VendorDataToBytes(d, b) ==
    b \o Reverse(d.uuid) \o LeBytes16(d.pid) \o LeBytes16(d.pver)
      \o << Len(d.vstr), Len(d.pstr) >> \o d.vstr \o d.pstr

\* EepAtomLinuxDTBData::new(LinuxDTB::Blob(bytes) | LinuxDTB::Name(string))
LinuxDTBDataNew(variant, bytes) == [kind |-> "dtb", variant |-> variant, data |-> bytes]

LinuxDTBDataLen(d) == Len(d.data)

LinuxDTBDataToBytes(d, b) == b \o d.data

EepAtomCustomDataNew(bytes) == [kind |-> "custom", data |-> bytes]

CustomDataLen(d) == Len(d.data)

CustomDataToBytes(d, b) == b \o d.data

\* impl ToBytes for EepAtomData: dispatch on the variant
DataLen(d) ==
    CASE d.kind = "vendor" -> VendorDataLen(d)
      [] d.kind = "gpio" -> GpioMapLen(d)
      [] d.kind = "dtb" -> LinuxDTBDataLen(d)
      [] d.kind = "custom" -> CustomDataLen(d)

DataToBytes(d, b) ==
    CASE d.kind = "vendor" -> VendorDataToBytes(d, b)
      [] d.kind = "gpio" -> GpioMapToBytes(d, b)
      [] d.kind = "dtb" -> LinuxDTBDataToBytes(d, b)
      [] d.kind = "custom" -> CustomDataToBytes(d, b)

(***************************************************************************)
(* lib.rs: EepAtomType, EepAtom                                            *)
(***************************************************************************)
EepAtomType == {"VendorInfo", "GpioBank0Map", "LinuxDTB", "ManufCustomData", "GpioBank1Map"}

\* `self.atype as u16`
AtomTypeTag(t) ==
    CASE t = "VendorInfo" -> 1 [] t = "GpioBank0Map" -> 2 [] t = "LinuxDTB" -> 3
      [] t = "ManufCustomData" -> 4 [] t = "GpioBank1Map" -> 5

NewVendorInfo(data) == [atype |-> "VendorInfo", count |-> 0, data |-> data]
NewGpioBank0Map(data) == [atype |-> "GpioBank0Map", count |-> 1, data |-> data]
NewLinuxDtb(data) == [atype |-> "LinuxDTB", count |-> 2, data |-> data]
NewCustom(data) == [atype |-> "ManufCustomData", count |-> 65535, data |-> data]
NewGpioBank1Map(data) == [atype |-> "GpioBank1Map", count |-> 1, data |-> data]

\* mutant of AtomLen: the CRC trailer is not counted
AtomLenNoCrc(a) == 2 + 2 + 4 + DataLen(a.data)

AtomLen(a) == 2 + 2 + 4 + DataLen(a.data) + 2

\* mutant of AtomToBytes: dlen is the payload length without the CRC
AtomToBytesDlenPayload(a, b) ==
    LET b1 == b \o LeBytes16(AtomTypeTag(a.atype)) \o LeBytes16(a.count)
        dlen == AsU32(DataLen(a.data))
        b2 == DataToBytes(a.data, b1 \o LeBytes32(dlen))
        crc_len == AtomLen(a) - 2
        crc16 == Crc16Arc(Tail0(b2, Len(b2) - crc_len))
    IN  b2 \o LeBytes16(crc16)

\* mutant of AtomToBytes: the CRC is taken over the whole buffer
AtomToBytesCrcWholeBuf(a, b) ==
    LET b1 == b \o LeBytes16(AtomTypeTag(a.atype)) \o LeBytes16(a.count)
        dlen == AsU32(DataLen(a.data)) + 2
        b2 == DataToBytes(a.data, b1 \o LeBytes32(dlen))
        crc16 == Crc16Arc(b2)
    IN  b2 \o LeBytes16(crc16)

AtomToBytes(a, b) ==
    LET b1 == b \o LeBytes16(AtomTypeTag(a.atype)) \o LeBytes16(a.count)
        dlen == AsU32(DataLen(a.data)) + 2
        b2 == DataToBytes(a.data, b1 \o LeBytes32(dlen))
        crc_len == AtomLen(a) - 2
        crc16 == Crc16Arc(Tail0(b2, Len(b2) - crc_len))
    IN  b2 \o LeBytes16(crc16)

(***************************************************************************)
(* Vec<EepAtom>, run-length compressed                                     *)
(***************************************************************************)
EmptyVec == << >>

RECURSIVE VecLen(_)
VecLen(v) == IF v = << >> THEN 0 ELSE v[Len(v)].n + VecLen(SubSeq(v, 1, Len(v) - 1))

VecIsEmpty(v) == v = << >>

\* element i of run r (0-based within the run)
RunAtom(r, i) == [atype |-> r.atype, count |-> AsU16(r.count + i), data |-> r.data]

\* v[i], 0-based
RECURSIVE AtomAt(_, _)
AtomAt(v, i) ==
    IF i < Head(v).n THEN RunAtom(Head(v), i) ELSE AtomAt(Tail(v), i - Head(v).n)

\* Vec::last() on a non-empty vector
VecLast(v) == RunAtom(v[Len(v)], v[Len(v)].n - 1)

\* Vec::push
PushBack(v, a) ==
    LET k == Len(v)
    IN  IF k > 0 /\ v[k].atype = a.atype /\ v[k].data = a.data
             /\ AsU16(v[k].count + v[k].n) = a.count
        THEN [v EXCEPT ![k].n = @ + 1]
        ELSE Append(v, [atype |-> a.atype, count |-> a.count, data |-> a.data, n |-> 1])

(***************************************************************************)
(* lib.rs: Eep                                                             *)
(***************************************************************************)
EepNew(vendor_data, gpio_map_data) ==
    PushBack(PushBack(EmptyVec, NewVendorInfo(vendor_data)),
             NewGpioBank0Map(gpio_map_data))

\* the guard at the head of push
AtomCountExceeded(len) == len > U16_MAX + 1

\* mutant of OrderAccepted: the LinuxDTB row also lets a second LinuxDTB through
OrderAcceptedDtbTwice(last, atype) ==
    CASE last = "VendorInfo" -> atype = "GpioBank0Map"
      [] last = "GpioBank0Map" -> atype \in {"LinuxDTB", "ManufCustomData", "GpioBank1Map"}
      [] last = "LinuxDTB" -> atype \in {"LinuxDTB", "ManufCustomData", "GpioBank1Map"}
      [] last = "ManufCustomData" -> atype \in {"ManufCustomData", "GpioBank1Map"}
      [] last = "GpioBank1Map" -> FALSE

\* mutant of OrderAccepted: the ManufCustomData row is a copy of the
\* GpioBank0Map row and lets a LinuxDTB follow custom data
OrderAcceptedDtbLate(last, atype) ==
    CASE last = "VendorInfo" -> atype = "GpioBank0Map"
      [] last = "GpioBank0Map" -> atype \in {"LinuxDTB", "ManufCustomData", "GpioBank1Map"}
      [] last = "LinuxDTB" -> atype \in {"ManufCustomData", "GpioBank1Map"}
      [] last = "ManufCustomData" -> atype \in {"LinuxDTB", "ManufCustomData", "GpioBank1Map"}
      [] last = "GpioBank1Map" -> FALSE

\* mutant of OrderAccepted: the GpioBank1Map row is a copy of the
\* ManufCustomData row, so the stream is not closed by a GpioBank1Map
OrderAcceptedAfterBank1(last, atype) ==
    CASE last = "VendorInfo" -> atype = "GpioBank0Map"
      [] last = "GpioBank0Map" -> atype \in {"LinuxDTB", "ManufCustomData", "GpioBank1Map"}
      [] last = "LinuxDTB" -> atype \in {"ManufCustomData", "GpioBank1Map"}
      [] last = "ManufCustomData" -> atype \in {"ManufCustomData", "GpioBank1Map"}
      [] last = "GpioBank1Map" -> atype \in {"ManufCustomData", "GpioBank1Map"}

\* the inner `match atom.atype` arms that fall through to the append,
\* one row per `last.atype`
OrderAccepted(last, atype) ==
    CASE last = "VendorInfo" -> atype = "GpioBank0Map"
      [] last = "GpioBank0Map" -> atype \in {"LinuxDTB", "ManufCustomData", "GpioBank1Map"}
      [] last = "LinuxDTB" -> atype \in {"ManufCustomData", "GpioBank1Map"}
      [] last = "ManufCustomData" -> atype \in {"ManufCustomData", "GpioBank1Map"}
      [] last = "GpioBank1Map" -> FALSE

\* the `expected: vec![..]` literal of each row's error
OrderExpected(last) ==
    CASE last = "VendorInfo" -> << "GpioBank0Map" >>
      [] last = "GpioBank0Map" -> << "LinuxDTB", "ManufCustomData", "GpioBank1Map" >>
      [] last = "LinuxDTB" -> << "ManufCustomData", "GpioBank1Map" >>
      [] last = "ManufCustomData" -> << "ManufCustomData", "GpioBank1Map" >>
      [] last = "GpioBank1Map" -> << >>

ResOk == [kind |-> "Ok"]
ErrMaxAtomCountExceeded == [kind |-> "MaxAtomCountExceeded"]
ErrWrongAtomOrder(atype, prev, expected) ==
    [kind |-> "WrongAtomOrder", atype |-> atype, prev |-> prev, expected |-> expected]
\* `.expect("BUG: ...")` on None: the thread panics
ResPanic == [kind |-> "Panic"]
\* no push made yet
ResNone == [kind |-> "None"]

\* no object held
NoObj == [kind |-> "none"]

\* mutant of PushAssign: the numbered atom is inserted at the head of the vector
PushAssignInsertFirst(v, atom) ==
    << [atype |-> atom.atype, count |-> AsU16(VecLen(v)), data |-> atom.data, n |-> 1] >> \o v

\* `atom.count = self.atoms.len() as u16; self.atoms.push(atom)`
PushAssign(v, atom) == PushBack(v, [atom EXCEPT !.count = AsU16(VecLen(v))])

\* mutant of EepPush: the atom is numbered and appended before its type is
\* checked, so a rejected atom stays in the vector
EepPushAppendFirst(v, atom) ==
    IF AtomCountExceeded(VecLen(v))
    THEN [atoms |-> v, result |-> ErrMaxAtomCountExceeded]
    ELSE IF VecIsEmpty(v) /\ atom.atype # "VendorInfo"
    THEN [atoms |-> PushAssign(v, atom),
          result |-> ErrWrongAtomOrder(atom.atype, "None", << "VendorInfo" >>)]
    ELSE IF VecIsEmpty(v)
    THEN [atoms |-> v, result |-> ResPanic]
    ELSE LET last == VecLast(v)
         IN  IF ~OrderAccepted(last.atype, atom.atype)
             THEN [atoms |-> PushAssign(v, atom),
                   result |-> ErrWrongAtomOrder(atom.atype, last.atype,
                                                OrderExpected(last.atype))]
             ELSE [atoms |-> PushAssign(v, atom), result |-> ResOk]

\* Eep::push: the vector after the call and what the call returned
EepPush(v, atom) ==
    IF AtomCountExceeded(VecLen(v))
    THEN [atoms |-> v, result |-> ErrMaxAtomCountExceeded]
    ELSE IF VecIsEmpty(v) /\ atom.atype # "VendorInfo"
    THEN [atoms |-> v,
          result |-> ErrWrongAtomOrder(atom.atype, "None", << "VendorInfo" >>)]
    ELSE IF VecIsEmpty(v)
    THEN [atoms |-> v, result |-> ResPanic]
    ELSE LET last == VecLast(v)
         IN  IF ~OrderAccepted(last.atype, atom.atype)
             THEN [atoms |-> v,
                   result |-> ErrWrongAtomOrder(atom.atype, last.atype,
                                                OrderExpected(last.atype))]
             ELSE [atoms |-> PushAssign(v, atom), result |-> ResOk]

\* mutant of EepLen: the header is not counted
RECURSIVE EepLenNoHeader(_)
EepLenNoHeader(v) ==
    IF v = << >> THEN 0
    ELSE EepLenNoHeader(SubSeq(v, 1, Len(v) - 1))
           + v[Len(v)].n * AtomLen(RunAtom(v[Len(v)], 0))

\* impl ToBytes for Eep: len()
RECURSIVE EepLen(_)
EepLen(v) ==
    IF v = << >> THEN 4 + 1 + 1 + 2 + 4
    ELSE EepLen(SubSeq(v, 1, Len(v) - 1)) + v[Len(v)].n * AtomLen(RunAtom(v[Len(v)], 0))

EEP_SIGNATURE == 1766862162

\* mutant of EepHeader: numatoms is written with to_be_bytes
EepHeaderCountBE(v) ==
    LeBytes32(EEP_SIGNATURE) \o << 1 >> \o << 0 >>
      \o Reverse(LeBytes16(AsU16(VecLen(v)))) \o LeBytes32(AsU32(EepLen(v)))

\* the header bytes to_bytes writes before the atoms
EepHeader(v) ==
    LeBytes32(EEP_SIGNATURE) \o << 1 >> \o << 0 >>
      \o LeBytes16(AsU16(VecLen(v))) \o LeBytes32(AsU32(EepLen(v)))

\* `for atom in &self.atoms { atom.to_bytes(buf) }` from index i on
RECURSIVE AtomsToBytes(_, _, _)
AtomsToBytes(v, i, b) ==
    IF i >= VecLen(v) THEN b ELSE AtomsToBytes(v, i + 1, AtomToBytes(AtomAt(v, i), b))

EepToBytes(v, b) == AtomsToBytes(v, 0, b \o EepHeader(v))

(***************************************************************************)
(* revpi-hat-eep gpio.rs: the bank definition of the configuration layer   *)
(***************************************************************************)
MAX_GPIOS == BANK0_GPIOS + BANK1_GPIOS

\* the enums of the configuration layer and their conversion into the enums
\* of gpio_map (impl From<..> for gpio_map::..)
GpioBankDrive ==
    { "Default", "Drive2mA", "Drive4mA", "Drive6mA", "Drive8mA", "Drive10mA",
      "Drive12mA", "Drive14mA", "Drive16mA" }
GpioBankSlew == { "Default", "RateLimiting", "NoLimit" }
GpioBankHysteresis == { "Default", "Disable", "Enable" }
CfgGpioFsel == { "Input", "Output", "Alt0", "Alt1", "Alt2", "Alt3", "Alt4", "Alt5" }
CfgGpioPull == { "Default", "Up", "Down", "None" }

DriveInto(d) ==
    CASE d = "Default" -> 0 [] d = "Drive2mA" -> 1 [] d = "Drive4mA" -> 2
      [] d = "Drive6mA" -> 3 [] d = "Drive8mA" -> 4 [] d = "Drive10mA" -> 5
      [] d = "Drive12mA" -> 6 [] d = "Drive14mA" -> 7 [] d = "Drive16mA" -> 8

SlewInto(x) == CASE x = "Default" -> 0 [] x = "RateLimiting" -> 1 [] x = "NoLimit" -> 2

HysteresisInto(h) == CASE h = "Default" -> 0 [] h = "Disable" -> 1 [] h = "Enable" -> 2

FselInto(f) ==
    CASE f = "Input" -> "Input" [] f = "Output" -> "Output" [] f = "Alt0" -> "Alt0"
      [] f = "Alt1" -> "Alt1" [] f = "Alt2" -> "Alt2" [] f = "Alt3" -> "Alt3"
      [] f = "Alt4" -> "Alt4" [] f = "Alt5" -> "Alt5"

\* mutant of PullInto: None is taken for Default
PullIntoNoneDefault(p) ==
    CASE p = "Default" -> "Default" [] p = "Up" -> "Up" [] p = "Down" -> "Down"
      [] p = "None" -> "Default"

PullInto(p) ==
    CASE p = "Default" -> "Default" [] p = "Up" -> "Up" [] p = "Down" -> "Down"
      [] p = "None" -> "NoPull"

\* struct GpioPin { gpio: u8, fsel, pull, comment } (the comment is not used)
CfgGpioPin(gpio, fsel, pull) == [gpio |-> gpio, fsel |-> fsel, pull |-> pull]

\* GpioBank::new
CfgGpioBankNew(drive, slew, hysteresis, gpios) ==
    [drive |-> drive, slew |-> slew, hysteresis |-> hysteresis, gpios |-> gpios]

ErrValidation(why, gpio) == [kind |-> "ValidationError", why |-> why, gpio |-> gpio]

\* mutant of ValidateLoop: a Bank1 index is only checked against the upper end
RECURSIVE ValidateLoopNoLower(_, _, _, _)
ValidateLoopNoLower(gpios, i, configured_gpios, bank_no) ==
    IF i > Len(gpios) THEN ResOk
    ELSE LET g == gpios[i].gpio
         IN  IF g = 0 \/ g = 1 THEN ErrValidation("Reserved", g)
             ELSE IF bank_no = "Bank0" /\ g >= BANK0_GPIOS
             THEN ErrValidation("RangeBank0", g)
             ELSE IF bank_no = "Bank1" /\ g >= BANK0_GPIOS + BANK1_GPIOS
             THEN ErrValidation("RangeBank1", g)
             ELSE IF g >= Len(configured_gpios) THEN ResPanic
             ELSE IF configured_gpios[g + 1] THEN ErrValidation("Duplicate", g)
             ELSE ValidateLoopNoLower(gpios, i + 1,
                                      [configured_gpios EXCEPT ![g + 1] = TRUE], bank_no)

\* the loop of GpioBank::validate from pin i on; configured_gpios[g + 1] is
\* the Vec<bool> element with index g, and indexing past its end panics
RECURSIVE ValidateLoop(_, _, _, _)
ValidateLoop(gpios, i, configured_gpios, bank_no) ==
    IF i > Len(gpios) THEN ResOk
    ELSE LET g == gpios[i].gpio
         IN  IF g = 0 \/ g = 1 THEN ErrValidation("Reserved", g)
             ELSE IF bank_no = "Bank0" /\ g >= BANK0_GPIOS
             THEN ErrValidation("RangeBank0", g)
             ELSE IF bank_no = "Bank1"
                       /\ (g >= BANK0_GPIOS + BANK1_GPIOS \/ g < BANK0_GPIOS)
             THEN ErrValidation("RangeBank1", g)
             ELSE IF g >= Len(configured_gpios) THEN ResPanic
             ELSE IF configured_gpios[g + 1] THEN ErrValidation("Duplicate", g)
             ELSE ValidateLoop(gpios, i + 1,
                               [configured_gpios EXCEPT ![g + 1] = TRUE], bank_no)

\* GpioBank::validate(&self, bank_no)
GpioBankValidate(bank, bank_no) ==
    ValidateLoop(bank.gpios, 1, [k \in 1 .. MAX_GPIOS |-> FALSE], bank_no)

\* the earlier, bank-0-only revision of the tool (src/gpio.rs)
MAX_GPIOS_BANK0_ONLY == 28

RECURSIVE ValidateLoopBank0Only(_, _, _)
ValidateLoopBank0Only(gpios, i, configured_gpios) ==
    IF i > Len(gpios) THEN ResOk
    ELSE LET g == gpios[i].gpio
         IN  IF g = 0 \/ g = 1 THEN ErrValidation("Reserved", g)
             ELSE IF g >= MAX_GPIOS_BANK0_ONLY THEN ErrValidation("RangeBank0", g)
             ELSE IF g >= Len(configured_gpios) THEN ResPanic
             ELSE IF configured_gpios[g + 1] THEN ErrValidation("Duplicate", g)
             ELSE ValidateLoopBank0Only(gpios, i + 1,
                                        [configured_gpios EXCEPT ![g + 1] = TRUE])

GpioBankValidateBank0Only(bank) ==
    ValidateLoopBank0Only(bank.gpios, 1, [k \in 1 .. MAX_GPIOS_BANK0_ONLY |-> FALSE])

\* the loop of GpioBank::into_gpio_map from pin i on: `gpio_map.set(..)?`
RECURSIVE IntoLoop(_, _, _)
IntoLoop(gpios, i, map) ==
    IF i > Len(gpios) THEN [map |-> map, res |-> ResOk]
    ELSE LET r == GpioMapSet(map, gpios[i].gpio,
                             GpioPinNew(FselInto(gpios[i].fsel), PullInto(gpios[i].pull), TRUE))
         IN  IF r.ok THEN IntoLoop(gpios, i + 1, r.map)
             ELSE [map |-> NoObj,
                   res |-> [kind |-> "GpioError", gpio_no |-> r.gpio_no,
                            bank |-> r.bank, etype |-> "OutOfBound"]]

\* GpioBank::into_gpio_map(self, bank): the map, or the error and no map
GpioBankIntoGpioMap(bank, bank_no) ==
    IntoLoop(bank.gpios, 1,
             GpioMapNew(bank_no, DriveInto(bank.drive), SlewInto(bank.slew),
                        HysteresisInto(bank.hysteresis), 0))

(***************************************************************************)
(* Bounds and the inputs the operations are driven with                    *)
(***************************************************************************)
\* a bank definition lists at most MaxPins pins
MaxPins == 2
\* set is called at most MaxSets times on one map
MaxSets == 2
\* set is called with the indices 0 .. MaxIndex
MaxIndex == 47
\* Spec stops pushing once the stream holds MaxAtoms atoms
MaxAtoms == 5
\* custom data blobs are 0 .. MaxPayload bytes long
MaxPayload == 1
\* the caller's buffer holds 0 .. MaxPrefix bytes before to_bytes is called
MaxPrefix == 1
\* SpecLimit starts from a stream that FillCount custom atoms were pushed to
FillCount == 65530

\* 67e55044-10b1-426f-9247-bb680e5fe0c8
SampleUuid == << 103, 229, 80, 68, 16, 177, 66, 111, 146, 71, 187, 104, 14, 95, 224, 200 >>

VendorSamples ==
    { VendorDataNew(SampleUuid, 666, 120, vstr, << 84 >>).data :
        vstr \in { << 75 >>, << 75, 85 >> } }

Bank0Samples ==
    { GpioMapNew("Bank0", 0, 0, 0, 0),
      GpioMapSet(GpioMapNew("Bank0", 8, 2, 1, 2), 2, GpioPinNew("Alt3", "NoPull", TRUE)).map }

Bank1Samples ==
    { GpioMapNew("Bank1", 0, 0, 0, 0),
      GpioMapSet(GpioMapNew("Bank1", 4, 1, 2, 0), 45, GpioPinNew("Output", "Up", TRUE)).map }

DtbSamples == { LinuxDTBDataNew("Blob", << 208, 13 >>), LinuxDTBDataNew("Name", << 97 >>) }

CustomSamples == { EepAtomCustomDataNew([i \in 1 .. k |-> 170]) : k \in 0 .. MaxPayload }

\* the atoms a caller can build with the EepAtom constructors
AtomInputs ==
    { NewVendorInfo(d) : d \in VendorSamples }
      \cup { NewGpioBank0Map(d) : d \in Bank0Samples }
      \cup { NewLinuxDtb(d) : d \in DtbSamples }
      \cup { NewCustom(d) : d \in CustomSamples }
      \cup { NewGpioBank1Map(d) : d \in Bank1Samples }

Prefixes == { [i \in 1 .. k |-> 255] : k \in 0 .. MaxPrefix }

(***************************************************************************)
(* The state machine: one Eep, the result of the last push, one buffer     *)
(***************************************************************************)
NoCall == [made |-> FALSE]
NoSer == [made |-> FALSE]
NoPacked == 256

\* the program holds no separate GPIO map, pin or payload object
NoGpio ==
    /\ gmap = NoObj
    /\ gres = ResNone
    /\ gcall = NoCall
    /\ gpioPin = NoObj
    /\ packed = NoPacked

\* the program holds no configuration
NoCfg ==
    /\ config = NoObj
    /\ outcome = ResNone

\* the program holds no atom stream
NoEep ==
    /\ atoms = EmptyVec
    /\ result = ResNone
    /\ call = NoCall

Init ==
    /\ \E v \in VendorSamples, g \in Bank0Samples : atoms = EepNew(v, g)
    /\ result = ResNone
    /\ call = NoCall
    /\ buf = << >>
    /\ ser = NoSer
    /\ NoGpio
    /\ NoCfg
    /\ obj = NoObj

\* eep.push(atom)
Push(atom) ==
    /\ result.kind # "Panic"
    /\ ~ser.made
    /\ LET r == EepPush(atoms, atom)
       IN  atoms' = r.atoms /\ result' = r.result
    /\ call' = [made |-> TRUE, atom |-> atom, before |-> atoms]
    /\ UNCHANGED << buf, ser, obj >>
    /\ UNCHANGED gpioVars
    /\ UNCHANGED cfgVars

\* let mut buf = Vec::new()  (or a buffer that already holds some bytes)
NewBuf(prefix) ==
    /\ result.kind # "Panic"
    /\ ~ser.made
    /\ buf # prefix
    /\ buf' = prefix
    /\ ser' = NoSer
    /\ UNCHANGED << atoms, result, call, obj >>
    /\ UNCHANGED gpioVars
    /\ UNCHANGED cfgVars

\* eep.to_bytes(&mut buf): the callers build the stream, stop at the first
\* Err of push, serialise once and write the buffer out
ToBytes ==
    /\ result.kind \in {"None", "Ok"}
    /\ ~ser.made
    /\ buf' = EepToBytes(atoms, buf)
    /\ ser' = [made |-> TRUE, prefix |-> buf, atoms |-> atoms]
    /\ UNCHANGED << atoms, result, call, obj >>
    /\ UNCHANGED gpioVars
    /\ UNCHANGED cfgVars

Next ==
    \/ \E atom \in AtomInputs : VecLen(atoms) < MaxAtoms /\ Push(atom)
    \/ \E prefix \in Prefixes : NewBuf(prefix)
    \/ ToBytes

Spec == Init /\ [][Next]_vars

(***************************************************************************)
(* push as a function of the struct value: self.atoms is any short vector  *)
(* of constructor-built atoms (empty, or ending in any of the five types), *)
(* not only the vectors Eep::new and earlier pushes leave behind           *)
(***************************************************************************)
AnyVecs == { EmptyVec } \cup { PushBack(EmptyVec, a) : a \in AtomInputs }

InitAny ==
    /\ atoms \in AnyVecs
    /\ result = ResNone
    /\ call = NoCall
    /\ buf = << >>
    /\ ser = NoSer
    /\ NoGpio
    /\ NoCfg
    /\ obj = NoObj

NextAny == \E atom \in AtomInputs : VecLen(atoms) < MaxAtoms /\ Push(atom)

SpecAny == InitAny /\ [][NextAny]_vars

(***************************************************************************)
(* Streams near the atom-count limit: Eep::new followed by FillCount       *)
(* pushes of a custom atom (the `for data in eep_config.custom` loop of    *)
(* eepmake), then any pushes                                               *)
(***************************************************************************)
\* n times `eep.push(atom).unwrap()`: the loop ends at the first Err
RECURSIVE PushN(_, _, _)
PushN(r, atom, n) ==
    IF n = 0 THEN r
    ELSE IF n = 1 THEN EepPush(r.atoms, atom)
    ELSE LET h == PushN(r, atom, n \div 2)
         IN  IF h.result.kind # "Ok" THEN h ELSE PushN(h, atom, n - (n \div 2))

InitLimit ==
    /\ \E c \in CustomSamples :
         LET v == CHOOSE d \in VendorSamples : Len(d.vstr) = 1
             g == GpioMapNew("Bank0", 0, 0, 0, 0)
             b == PushN([atoms |-> EepNew(v, g), result |-> ResOk],
                        NewCustom(c), FillCount - 1)
             r == EepPush(b.atoms, NewCustom(c))
         IN  /\ atoms = r.atoms
             /\ result = r.result
             /\ call = [made |-> TRUE, atom |-> NewCustom(c), before |-> b.atoms]
    /\ buf = << >>
    /\ ser = NoSer
    /\ NoGpio
    /\ NoCfg
    /\ obj = NoObj

NextLimit == \E atom \in AtomInputs : Push(atom)

SpecLimit == InitLimit /\ [][NextLimit]_vars

(***************************************************************************)
(* Reading an image back (used to state what to_bytes wrote)               *)
(***************************************************************************)
U16At(b, off) == b[off + 1] + 256 * b[off + 2]
U32At(b, off) == b[off + 1] + 256 * b[off + 2] + 65536 * b[off + 3] + 16777216 * b[off + 4]

\* the atom records found in b from offset off on, each cut by its own dlen
RECURSIVE ParseAtoms(_, _)
ParseAtoms(b, off) ==
    IF off + 8 > Len(b) THEN << >>
    ELSE IF b[off + 8] # 0 \/ off + 8 + U32At(b, off + 4) > Len(b) \/ U32At(b, off + 4) < 2
    THEN << >>   \* no complete record here
    ELSE LET dlen == U32At(b, off + 4)
         IN  << [tag |-> U16At(b, off), count |-> U16At(b, off + 2), dlen |-> dlen,
                 data |-> SubSeq(b, off + 9, off + 8 + dlen - 2),
                 end |-> off + 8 + dlen] >>
               \o ParseAtoms(b, off + 8 + dlen)

\* the bytes an atom's payload encodes to, and the size of the whole record
PayloadBytes(a) == DataToBytes(a.data, << >>)
EncodedLen(a) == 2 + 2 + 4 + Len(PayloadBytes(a)) + 2

RECURSIVE SumEncodedLen(_, _)
SumEncodedLen(v, i) ==
    IF i >= VecLen(v) THEN 0 ELSE EncodedLen(AtomAt(v, i)) + SumEncodedLen(v, i + 1)

\* index of the first atom of run k (1-based k, 0-based index)
RECURSIVE RunStart(_, _)
RunStart(v, k) == IF k = 1 THEN 0 ELSE RunStart(v, k - 1) + v[k - 1].n

TypeAt(v, i) == AtomAt(v, i).atype

BeforeLast == IF VecIsEmpty(call.before) THEN "None" ELSE VecLast(call.before).atype

\* the table of the ordering state machine, as (last type, incoming type) pairs
LegalTransitions ==
    { << "VendorInfo", "GpioBank0Map" >>,
      << "GpioBank0Map", "LinuxDTB" >>, << "GpioBank0Map", "ManufCustomData" >>,
      << "GpioBank0Map", "GpioBank1Map" >>,
      << "LinuxDTB", "ManufCustomData" >>, << "LinuxDTB", "GpioBank1Map" >>,
      << "ManufCustomData", "ManufCustomData" >>, << "ManufCustomData", "GpioBank1Map" >> }

(***************************************************************************)
(* C1..C10                                                                 *)
(***************************************************************************)

\* C1: on a non-empty stream below the atom-count limit, push returns Ok
\* exactly when (type of the last atom, type of the pushed atom) is in the
\* legal-transition table, and Err(WrongAtomOrder) for every other pair.
C1_PushFollowsTable ==
    (call.made /\ ~VecIsEmpty(call.before) /\ VecLen(call.before) < U16_MAX)
        => IF << BeforeLast, call.atom.atype >> \in LegalTransitions
           THEN result.kind = "Ok"
           ELSE result.kind = "WrongAtomOrder"

C1_Witness ==
    /\ call.made /\ BeforeLast = "VendorInfo"
    /\ call.atom.atype = "GpioBank0Map" /\ result.kind = "Ok"

\* C2: whenever push returns Err (WrongAtomOrder or MaxAtomCountExceeded) the
\* stream is what it was before the call: same atoms, same types, sequence
\* numbers and payloads (equal compressed vectors have equal elements).
C2_RejectionAtomic ==
    (call.made /\ result.kind \in {"WrongAtomOrder", "MaxAtomCountExceeded"})
        => /\ atoms = call.before
           /\ VecLen(atoms) = VecLen(call.before)

C2_Witness ==
    /\ call.made /\ result.kind = "MaxAtomCountExceeded"
    /\ call.atom.atype = "ManufCustomData"

\* C3: the types of the stream read VendorInfo, GpioBank0Map, at most one
\* LinuxDTB (directly after them), any number of ManufCustomData, at most
\* one GpioBank1Map (last).
C3_LegalOrder ==
    LET n == VecLen(atoms)
    IN  /\ n >= 2
        /\ TypeAt(atoms, 0) = "VendorInfo"
        /\ TypeAt(atoms, 1) = "GpioBank0Map"
        /\ \A i \in 2 .. (n - 1) :
             /\ TypeAt(atoms, i) \in {"LinuxDTB", "ManufCustomData", "GpioBank1Map"}
             /\ TypeAt(atoms, i) = "LinuxDTB" => i = 2
             /\ TypeAt(atoms, i) = "GpioBank1Map" => i = n - 1

C3_Witness ==
    /\ VecLen(atoms) = 5
    /\ TypeAt(atoms, 2) = "LinuxDTB"
    /\ TypeAt(atoms, 3) = "ManufCustomData"
    /\ TypeAt(atoms, 4) = "GpioBank1Map"
    /\ call.made /\ call.atom.atype = "GpioBank1Map" /\ result.kind = "Ok"

\* C4: the atom at index i has sequence number i, in every reachable stream
\* (the counts inside a run are consecutive, so each run is checked at its
\* first and its last element).
C4_SequenceIsIndex ==
    \A k \in 1 .. Len(atoms) :
        LET first == RunStart(atoms, k)
            last == first + atoms[k].n - 1
        IN  /\ AtomAt(atoms, first).count = first
            /\ AtomAt(atoms, last).count = last

\* C5 as stated: once the last atom is a GpioBank1Map, every push fails with
\* WrongAtomOrder whose expected set is empty, and the stream does not change.
C5_TerminalWrongOrder ==
    (call.made /\ BeforeLast = "GpioBank1Map")
        => /\ result = ErrWrongAtomOrder(call.atom.atype, "GpioBank1Map", << >>)
           /\ atoms = call.before

\* C5, amended: once the last atom is a GpioBank1Map, every push fails and
\* the stream does not change; the error is WrongAtomOrder with an empty
\* expected set, unless the atom-count check rejects the push first with
\* MaxAtomCountExceeded, which happens only at 65535 atoms or more.
C5_Terminal ==
    (call.made /\ BeforeLast = "GpioBank1Map")
        => /\ atoms = call.before
           /\ \/ result = ErrWrongAtomOrder(call.atom.atype, "GpioBank1Map", << >>)
              \/ /\ result.kind = "MaxAtomCountExceeded"
                 /\ VecLen(call.before) >= U16_MAX

C5_Witness ==
    /\ call.made /\ BeforeLast = "GpioBank1Map"
    /\ call.atom.atype = "ManufCustomData"
    /\ result.kind = "WrongAtomOrder" /\ result.expected = << >>

AcceptedTypes(v) ==
    { t \in EepAtomType :
        \E a \in AtomInputs : a.atype = t /\ EepPush(v, a).result.kind = "Ok" }

SeqToSet(q) == { q[i] : i \in 1 .. Len(q) }

C8_AtomCountLimit ==
    /\ VecLen(atoms) <= U16_MAX
    /\ (call.made /\ VecLen(call.before) >= U16_MAX)
          => (result.kind = "MaxAtomCountExceeded" /\ atoms = call.before)
    /\ U16At(EepHeader(atoms), 6) = VecLen(atoms)

\* what C9 says of a header of hlen bytes: the atom records start right behind
\* it and fill the rest of what was written, and the total-length field is
\* hlen plus the sum of the encoded lengths of the atoms, CRC trailers included
TotalLengthWith(hlen) ==
    ser.made =>
        LET p == Len(ser.prefix)
            parsed == ParseAtoms(buf, p + hlen)
            n == VecLen(ser.atoms)
        IN  /\ U32At(buf, p + 8) = hlen + SumEncodedLen(ser.atoms, 0)
            /\ Len(parsed) = n
            /\ parsed[n].end = Len(buf)
            /\ \A i \in 1 .. n : parsed[i].tag = AtomTypeTag(TypeAt(ser.atoms, i - 1))

\* C9 as stated: the header is 13 bytes long and its total-length field is 13
\* plus the sum of the encoded lengths of the atoms.
C9_TotalLength13 == TotalLengthWith(13)

\* C9, amended: the header is 12 bytes long (4 + 1 + 1 + 2 + 4) and its
\* total-length field is 12 plus the sum of the encoded lengths of the atoms,
\* each counting its 2-byte CRC trailer.
C9_TotalLength == TotalLengthWith(12)

C9_Witness ==
    /\ ser.made /\ VecLen(ser.atoms) = 5 /\ Len(ser.prefix) = 1
    /\ TypeAt(ser.atoms, 4) = "GpioBank1Map"

EepSamples ==
    LET news == { EepNew(v, g) : v \in VendorSamples, g \in Bank0Samples }
    IN  news \cup { EepPush(e, a).atoms : e \in news, a \in AtomInputs }

PayloadSamples ==
    VendorSamples \cup Bank0Samples \cup Bank1Samples \cup DtbSamples \cup CustomSamples

Objects ==
    { [kind |-> "EepAtomVendorData", val |-> d] : d \in VendorSamples }
      \cup { [kind |-> "EepAtomGpioMapData", val |-> d] : d \in Bank0Samples \cup Bank1Samples }
      \cup { [kind |-> "EepAtomLinuxDTBData", val |-> d] : d \in DtbSamples }
      \cup { [kind |-> "EepAtomCustomData", val |-> d] : d \in CustomSamples }
      \cup { [kind |-> "EepAtomData", val |-> d] : d \in PayloadSamples }
      \cup { [kind |-> "EepAtom", val |-> a] : a \in AtomInputs }
      \cup { [kind |-> "Eep", val |-> e] : e \in EepSamples }

\* trait ToBytes: len() and to_bytes() of the implementing type
ObjLen(o) ==
    CASE o.kind = "EepAtomVendorData" -> VendorDataLen(o.val)
      [] o.kind = "EepAtomGpioMapData" -> GpioMapLen(o.val)
      [] o.kind = "EepAtomLinuxDTBData" -> LinuxDTBDataLen(o.val)
      [] o.kind = "EepAtomCustomData" -> CustomDataLen(o.val)
      [] o.kind = "EepAtomData" -> DataLen(o.val)
      [] o.kind = "EepAtom" -> AtomLen(o.val)
      [] o.kind = "Eep" -> EepLen(o.val)

ObjToBytes(o, b) ==
    CASE o.kind = "EepAtomVendorData" -> VendorDataToBytes(o.val, b)
      [] o.kind = "EepAtomGpioMapData" -> GpioMapToBytes(o.val, b)
      [] o.kind = "EepAtomLinuxDTBData" -> LinuxDTBDataToBytes(o.val, b)
      [] o.kind = "EepAtomCustomData" -> CustomDataToBytes(o.val, b)
      [] o.kind = "EepAtomData" -> DataToBytes(o.val, b)
      [] o.kind = "EepAtom" -> AtomToBytes(o.val, b)
      [] o.kind = "Eep" -> EepToBytes(o.val, b)

InitBytes ==
    /\ NoEep
    /\ NoGpio
    /\ NoCfg
    /\ obj \in Objects
    /\ buf \in Prefixes
    /\ ser = NoSer

\* let n = obj.len(); obj.to_bytes(&mut buf)
CallToBytes ==
    /\ ~ser.made
    /\ buf' = ObjToBytes(obj, buf)
    /\ ser' = [made |-> TRUE, prefix |-> buf, len |-> ObjLen(obj)]
    /\ UNCHANGED obj
    /\ UNCHANGED eepVars
    /\ UNCHANGED gpioVars
    /\ UNCHANGED cfgVars

NextBytes == CallToBytes

SpecBytes == InitBytes /\ [][NextBytes]_vars

(***************************************************************************)
(* GpioPin::to_u8 as a function of the pin: any pin GpioPin::new can       *)
(* build is packed, then one of its fields is changed and it is packed     *)
(* again                                                                   *)
(***************************************************************************)
AllPins == { GpioPinNew(f, p, u) : f \in GpioFsel, p \in GpioPull, u \in BOOLEAN }

InitPin ==
    /\ NoEep
    /\ NoCfg
    /\ buf = << >>
    /\ ser = NoSer
    /\ obj = NoObj
    /\ gmap = NoObj
    /\ gres = ResNone
    /\ gcall = NoCall
    /\ gpioPin \in AllPins
    /\ packed = NoPacked

\* packed = pin.to_u8()
ToU8 ==
    /\ packed = NoPacked
    /\ packed' = GpioPinToU8(gpioPin)
    /\ UNCHANGED << gpioPin, gmap, gres, gcall, buf, ser, obj >>
    /\ UNCHANGED eepVars
    /\ UNCHANGED cfgVars

\* a pin that differs from the packed one in one field is built and packed
Repack(q) ==
    /\ packed # NoPacked
    /\ ~gcall.made
    /\ \/ q.fsel # gpioPin.fsel /\ q.pull = gpioPin.pull /\ q.used = gpioPin.used
       \/ q.fsel = gpioPin.fsel /\ q.pull # gpioPin.pull /\ q.used = gpioPin.used
       \/ q.fsel = gpioPin.fsel /\ q.pull = gpioPin.pull /\ q.used # gpioPin.used
    /\ gpioPin' = q
    /\ packed' = GpioPinToU8(q)
    /\ gcall' = [made |-> TRUE, before |-> gpioPin, packed |-> packed]
    /\ UNCHANGED << gmap, gres, buf, ser, obj >>
    /\ UNCHANGED eepVars
    /\ UNCHANGED cfgVars

NextPin ==
    \/ ToU8
    \/ \E q \in AllPins : Repack(q)

SpecPin == InitPin /\ [][NextPin]_vars

(***************************************************************************)
(* The GPIO map: EepAtomGpioMapData::new with every combination of bank    *)
(* settings, then to_bytes (SpecBank); new, calls of set, then to_bytes    *)
(* (SpecSet)                                                               *)
(***************************************************************************)
GpioBank == { "Bank0", "Bank1" }

AllMaps ==
    { GpioMapNew(bank, d, sl, h, p) :
        bank \in GpioBank, d \in GpioDrive, sl \in GpioSlew,
        h \in GpioHysteresis, p \in GpioBackPower }

MapSamples ==
    { GpioMapNew(bank, 0, 0, 0, 0) : bank \in GpioBank }
      \cup { GpioMapNew(bank, 8, 2, 1, 2) : bank \in GpioBank }

PinSamples == { GpioPinNew("Alt3", "NoPull", TRUE), GpioPinNew("Output", "Up", FALSE) }

\* Err(GpioError { gpio_no, bank, etype: GpioErrorType::OutOfBound })
ErrGpio(gpio_no, bank) ==
    [kind |-> "GpioError", gpio_no |-> gpio_no, bank |-> bank, etype |-> "OutOfBound"]

InitBank ==
    /\ NoEep
    /\ NoCfg
    /\ obj = NoObj
    /\ gmap \in AllMaps
    /\ gres = ResNone
    /\ gcall = NoCall
    /\ gpioPin = NoObj
    /\ packed = NoPacked
    /\ buf \in Prefixes
    /\ ser = NoSer

InitSet ==
    /\ NoEep
    /\ NoCfg
    /\ obj = NoObj
    /\ gmap \in MapSamples
    /\ gres = ResNone
    /\ gcall = NoCall
    /\ gpioPin = NoObj
    /\ packed = NoPacked
    /\ buf = << >>
    /\ ser = NoSer

\* gpio_map.set(n, gpio)?  in the loop over the configured pins: the callers
\* leave the loop at the first Err and drop the map
Set(n, gpio) ==
    /\ ~ser.made
    /\ gres.kind # "GpioError"
    /\ gcall.made => gcall.nth < MaxSets
    /\ LET r == GpioMapSet(gmap, n, gpio)
       IN  /\ gmap' = r.map
           /\ gres' = IF r.ok THEN ResOk ELSE ErrGpio(r.gpio_no, r.bank)
    /\ gcall' = [made |-> TRUE, n |-> n, gpio |-> gpio, before |-> gmap,
                 nth |-> IF gcall.made THEN gcall.nth + 1 ELSE 1]
    /\ UNCHANGED << gpioPin, packed, buf, ser, obj >>
    /\ UNCHANGED eepVars
    /\ UNCHANGED cfgVars

\* gpio_map.to_bytes(&mut buf)
GpioToBytes ==
    /\ ~ser.made
    /\ gmap # NoObj
    /\ gres.kind # "GpioError"
    /\ buf' = GpioMapToBytes(gmap, buf)
    /\ ser' = [made |-> TRUE, prefix |-> buf, len |-> GpioMapLen(gmap)]
    /\ UNCHANGED << obj >>
    /\ UNCHANGED gpioVars
    /\ UNCHANGED eepVars
    /\ UNCHANGED cfgVars

NextBank == GpioToBytes

SpecBank == InitBank /\ [][NextBank]_vars

NextSet ==
    \/ \E n \in 0 .. MaxIndex, gpio \in PinSamples : Set(n, gpio)
    \/ GpioToBytes

SpecSet == InitSet /\ [][NextSet]_vars

(***************************************************************************)
(* The bank definition of the configuration layer: GpioBank::validate and  *)
(* GpioBank::into_gpio_map as functions of the definition and the bank     *)
(* selector, then to_bytes of the map                                      *)
(***************************************************************************)
IndexSamples == { 1, 2, 27, 28, 45, 46 }

\* the last pin of a list has any u8 index, the pins before it a sample index
LastPins ==
    { CfgGpioPin(g, "Output", "Up") : g \in 0 .. U8_MAX }
      \cup { CfgGpioPin(g, "Alt0", "Down") : g \in 0 .. U8_MAX }

RECURSIVE PinLists(_)
PinLists(n) ==
    IF n = 0 THEN { << >> }
    ELSE IF n = 1 THEN { << q >> : q \in LastPins }
    ELSE { << CfgGpioPin(g, "Alt3", "None") >> \o l : g \in IndexSamples, l \in PinLists(n - 1) }

BankInputs ==
    { [kind |-> "GpioBank", bank_no |-> b,
       bank |-> CfgGpioBankNew("Drive8mA", "NoLimit", "Disable", l)] :
        b \in GpioBank, l \in UNION { PinLists(n) : n \in 0 .. MaxPins } }

InitValidate ==
    /\ NoEep
    /\ NoGpio
    /\ obj = NoObj
    /\ buf = << >>
    /\ ser = NoSer
    /\ config \in BankInputs
    /\ outcome = ResNone

\* bank.validate(bank_no)
Validate ==
    /\ outcome = ResNone
    /\ outcome' = GpioBankValidate(config.bank, config.bank_no)
    /\ UNCHANGED << config, buf, ser, obj >>
    /\ UNCHANGED eepVars
    /\ UNCHANGED gpioVars

\* bank.validate() of the bank-0-only revision
ValidateBank0Only ==
    /\ outcome = ResNone
    /\ config.bank_no = "Bank0"
    /\ outcome' = [kind |-> "Bank0Only", res |-> GpioBankValidateBank0Only(config.bank)]
    /\ UNCHANGED << config, buf, ser, obj >>
    /\ UNCHANGED eepVars
    /\ UNCHANGED gpioVars

\* bank.into_gpio_map(bank_no), whatever validate said: from_raw_definition
\* validates a definition only when it includes a template
IntoGpioMap ==
    /\ outcome.kind \notin { "None", "Bank0Only" }
    /\ gres = ResNone
    /\ LET r == GpioBankIntoGpioMap(config.bank, config.bank_no)
       IN  gmap' = r.map /\ gres' = r.res
    /\ UNCHANGED << gcall, gpioPin, packed, buf, ser, obj >>
    /\ UNCHANGED eepVars
    /\ UNCHANGED cfgVars

NextValidate ==
    \/ Validate
    \/ ValidateBank0Only
    \/ IntoGpioMap
    \/ GpioToBytes

SpecValidate == InitValidate /\ [][NextValidate]_vars

(***************************************************************************)
(* The vendor data: EepAtomVendorData::new as a function of its arguments, *)
(* then to_bytes of the value it returned                                  *)
(***************************************************************************)
StrLens == { 0, 1, U8_MAX - 1, U8_MAX, U8_MAX + 1, U8_MAX + 2 }

\* a string of n bytes
StrOf(n, c) == [i \in 1 .. n |-> c]

VendorArgs ==
    { [kind |-> "VendorArgs", uuid |-> SampleUuid, pid |-> pid, pver |-> 120,
       vstr |-> StrOf(v, 75), pstr |-> StrOf(q, 84)] :
        pid \in { 666, U16_MAX }, v \in StrLens, q \in StrLens }

InitVendor ==
    /\ NoEep
    /\ NoGpio
    /\ obj = NoObj
    /\ buf \in Prefixes
    /\ ser = NoSer
    /\ config \in VendorArgs
    /\ outcome = ResNone

\* EepAtomVendorData::new(uuid, pid, pver, vstr, pstr)
NewVendorData ==
    /\ outcome = ResNone
    /\ LET r == VendorDataNew(config.uuid, config.pid, config.pver, config.vstr, config.pstr)
       IN  outcome' = IF r.ok THEN [kind |-> "Ok", data |-> r.data]
                      ELSE [kind |-> "EepError", err |-> r.err]
    /\ UNCHANGED << config, buf, ser, obj >>
    /\ UNCHANGED eepVars
    /\ UNCHANGED gpioVars

\* vendor_data.to_bytes(&mut buf) on the value new returned
VendorToBytes ==
    /\ outcome.kind = "Ok"
    /\ ~ser.made
    /\ IF VendorDataToBytesPanics(outcome.data)
       THEN /\ ser' = [made |-> TRUE, prefix |-> buf, panic |-> TRUE]
            /\ UNCHANGED buf
       ELSE /\ ser' = [made |-> TRUE, prefix |-> buf, panic |-> FALSE,
                       len |-> VendorDataLen(outcome.data)]
            /\ buf' = VendorDataToBytes(outcome.data, buf)
    /\ UNCHANGED << obj >>
    /\ UNCHANGED cfgVars
    /\ UNCHANGED eepVars
    /\ UNCHANGED gpioVars

NextVendor ==
    \/ NewVendorData
    \/ VendorToBytes

SpecVendor == InitVendor /\ [][NextVendor]_vars

(***************************************************************************)
(* C11..C20                                                                *)
(***************************************************************************)
\* C11: the little-endian u32 that Eep::to_bytes writes as eeplen equals the
\* number of bytes the call appended to the buffer (header and every atom with
\* its CRC trailer), whatever the buffer held before.
C11_EeplenIsAppended ==
    ser.made /\ obj = NoObj =>
        /\ Len(buf) >= Len(ser.prefix) + 12
        /\ U32At(buf, Len(ser.prefix) + 8) = Len(buf) - Len(ser.prefix)

C11_Witness ==
    /\ ser.made /\ obj = NoObj
    /\ ser.prefix # << >>
    /\ VecLen(ser.atoms) >= 4
    /\ U32At(buf, Len(ser.prefix) + 8) > 12

\* CRC-16/ARC computed the other way round: polynomial 0x8005, most
\* significant bit first, input bytes and result bit-reflected
RECURSIVE Reflect(_, _)
Reflect(x, w) == IF w = 0 THEN 0 ELSE (x % 2) * (2 ^ (w - 1)) + Reflect(x \div 2, w - 1)

RECURSIVE ArcShift(_, _)
ArcShift(crc, k) ==
    IF k = 0 THEN crc
    ELSE ArcShift(IF crc >= 32768 THEN BitXor((crc * 2) % 65536, 32773) ELSE crc * 2, k - 1)

RECURSIVE ArcMsbFirst(_, _, _)
ArcMsbFirst(crc, bytes, i) ==
    IF i > Len(bytes) THEN crc
    ELSE LET c == ArcShift(BitXor(crc, Reflect(bytes[i], 8) * 256), 8)
         IN  IF c >= 0 THEN ArcMsbFirst(c, bytes, i + 1) ELSE 0

ArcReference(bytes) == Reflect(ArcMsbFirst(0, bytes, 1), 16)

\* the type tags of the wire format
WireTag(t) ==
    CASE t = "VendorInfo" -> 1 [] t = "GpioBank0Map" -> 2 [] t = "LinuxDTB" -> 3
      [] t = "ManufCustomData" -> 4 [] t = "GpioBank1Map" -> 5

\* C12: EepAtom::to_bytes appends the type tag as little-endian u16
\* (VendorInfo=1, GpioBank0Map=2, LinuxDTB=3, ManufCustomData=4,
\* GpioBank1Map=5), the sequence number as little-endian u16, the declared
\* length as little-endian u32 equal to payload length + 2, the payload bytes
\* and a 2-byte little-endian CRC: payload length + 10 bytes in all.
C12_AtomLayout ==
    ser.made /\ obj.kind = "EepAtom" =>
        LET a == obj.val
            p == Len(ser.prefix)
            d == PayloadBytes(a)
            n == Len(d)
        IN  /\ Len(buf) = p + n + 10
            /\ U16At(buf, p) = WireTag(a.atype)
            /\ U16At(buf, p + 2) = a.count
            /\ U32At(buf, p + 4) = n + 2
            /\ SubSeq(buf, p + 9, p + 8 + n) = d
            /\ U16At(buf, p + 8 + n) = ArcReference(SubSeq(buf, p + 1, p + 8 + n))

C12_Witness ==
    /\ ser.made /\ obj.kind = "EepAtom"
    /\ obj.val.atype = "GpioBank1Map"
    /\ obj.val.data.gpios[18].used
    /\ Len(buf) = Len(ser.prefix) + 30

\* C13: the CRC trailer of an atom is the CRC-16/ARC of exactly the bytes of
\* that atom from its type tag through its last payload byte; the bytes the
\* buffer held before (header, earlier atoms) do not enter it, so it equals a
\* CRC-16/ARC computed separately over the atom encoded on its own.
C13_CrcScope ==
    /\ ArcReference(<< 49, 50, 51, 52, 53, 54, 55, 56, 57 >>) = 47933
    /\ ser.made /\ obj.kind = "EepAtom" =>
          LET alone == AtomToBytes(obj.val, << >>)
              m == Len(alone)
              k == Len(buf)
          IN  /\ k >= m /\ m >= 10
              /\ SubSeq(buf, k - m + 1, k) = alone
              /\ U16At(buf, k - 2) = ArcReference(SubSeq(buf, k - m + 1, k - 2))

C13_Witness ==
    /\ ser.made /\ obj.kind = "EepAtom"
    /\ ser.prefix # << >>
    /\ obj.val.atype = "VendorInfo"
    /\ U16At(buf, Len(buf) - 2) # 0

\* C14: for every object that implements ToBytes (vendor data, GPIO map,
\* device tree data, custom data, atom payload, atom, whole Eep), to_bytes(buf)
\* makes the buffer exactly len() bytes longer and leaves the bytes that were
\* in the buffer before as they were.
C14_ToBytesContract ==
    ser.made /\ obj # NoObj =>
        /\ Len(buf) = Len(ser.prefix) + ser.len
        /\ SubSeq(buf, 1, Len(ser.prefix)) = ser.prefix

C14_Witness ==
    /\ ser.made /\ obj.kind = "EepAtomGpioMapData"
    /\ obj.val.bank = "Bank1"
    /\ ser.prefix # << >>
    /\ Len(buf) > Len(ser.prefix)

\* the codes of the wire format
WireFsel(f) ==
    CASE f = "Input" -> 0 [] f = "Output" -> 1 [] f = "Alt0" -> 4 [] f = "Alt1" -> 5
      [] f = "Alt2" -> 6 [] f = "Alt3" -> 7 [] f = "Alt4" -> 3 [] f = "Alt5" -> 2

WirePull(p) ==
    CASE p = "Default" -> 0 [] p = "Up" -> 1 [] p = "Down" -> 2 [] p = "NoPull" -> 3

\* the three fields of a packed byte and its reserved bits, cut out by mask
FselBits(x) == x % 8
ReservedBits(x) == (x \div 8) % 4
PullBits(x) == (x \div 32) % 4
UsedBit(x) == (x \div 128) % 2

\* C15: the packed byte of a pin has bits[2:0] = function-select code
\* (Input=0, Output=1, Alt0=4, Alt1=5, Alt2=6, Alt3=7, Alt4=3, Alt5=2),
\* bits[6:5] = pull code (Default=0, Up=1, Down=2, NoPull=3), bit 7 = used and
\* bits[4:3] = 0; (Alt3, NoPull, used) packs to 0xE7.
C15_PinPacking ==
    packed # NoPacked =>
        /\ packed \in 0 .. 255
        /\ FselBits(packed) = WireFsel(gpioPin.fsel)
        /\ PullBits(packed) = WirePull(gpioPin.pull)
        /\ UsedBit(packed) = (IF gpioPin.used THEN 1 ELSE 0)
        /\ ReservedBits(packed) = 0
        /\ gpioPin = GpioPinNew("Alt3", "NoPull", TRUE) => packed = 231

C15_Witness ==
    /\ packed = 231
    /\ gpioPin = GpioPinNew("Alt3", "NoPull", TRUE)

\* the pin a packed byte stands for, field by field
UnpackFsel(x) == CHOOSE f \in GpioFsel : WireFsel(f) = FselBits(x)
UnpackPull(x) == CHOOSE p \in GpioPull : WirePull(p) = PullBits(x)
UnpackUsed(x) == UsedBit(x) = 1

\* C16: unpacking the packed byte by mask gives back each field of the pin,
\* and when one field of the pin is changed and the pin packed again, the
\* bits of that field change and the bits of the other two fields stay.
C16_PinRoundTrip ==
    /\ packed # NoPacked =>
          /\ UnpackFsel(packed) = gpioPin.fsel
          /\ UnpackPull(packed) = gpioPin.pull
          /\ UnpackUsed(packed) = gpioPin.used
    /\ packed # NoPacked /\ gcall.made =>
          /\ packed # gcall.packed
          /\ (FselBits(packed) = FselBits(gcall.packed)) = (gpioPin.fsel = gcall.before.fsel)
          /\ (PullBits(packed) = PullBits(gcall.packed)) = (gpioPin.pull = gcall.before.pull)
          /\ (UsedBit(packed) = UsedBit(gcall.packed)) = (gpioPin.used = gcall.before.used)
          /\ ReservedBits(packed) = ReservedBits(gcall.packed)

C16_Witness ==
    /\ packed # NoPacked /\ gcall.made
    /\ gpioPin.used /\ ~gcall.before.used
    /\ gpioPin.fsel = "Alt5" /\ gpioPin.pull = "Down"

\* C17: the first byte EepAtomGpioMapData::to_bytes emits is
\* drive | slew<<4 | hysteresis<<6 and the second byte is the back-power code
\* with bits[7:2] = 0, for every drive (0..8), slew, hysteresis and back-power
\* (0..2) value; the settings can be read back from the two bytes, so
\* distinct settings give distinct control bytes.
C17_ControlBytes ==
    ser.made /\ gmap # NoObj =>
        LET p == Len(ser.prefix)
            c == buf[p + 1]
            q == buf[p + 2]
        IN  /\ Len(buf) >= p + 2
            /\ c = gmap.drive + 16 * gmap.slew + 64 * gmap.hysteresis
            /\ c \in 0 .. 255
            /\ c % 16 = gmap.drive /\ (c \div 16) % 4 = gmap.slew /\ c \div 64 = gmap.hysteresis
            /\ q = gmap.back_power
            /\ q \div 4 = 0

C17_Witness ==
    /\ ser.made /\ gmap # NoObj
    /\ gmap.drive = 8 /\ gmap.slew = 2 /\ gmap.hysteresis = 2 /\ gmap.back_power = 2
    /\ buf[Len(ser.prefix) + 1] = 168

\* the packed byte of the wire format
WirePin(g) == WireFsel(g.fsel) + 32 * WirePull(g.pull) + 128 * (IF g.used THEN 1 ELSE 0)

BankSize(bank) == IF bank = "Bank0" THEN 28 ELSE 18

C19_SetRange ==
    gcall.made /\ gmap # NoObj =>
        LET lo == IF gmap.bank = "Bank0" THEN 0 ELSE 28
            hi == IF gmap.bank = "Bank0" THEN 27 ELSE 45
        IN  IF gcall.n >= lo /\ gcall.n <= hi
            THEN /\ gres = ResOk
                 /\ gmap = [gcall.before EXCEPT !.gpios[gcall.n - lo + 1] = gcall.gpio]
            ELSE /\ gres.kind = "GpioError" /\ gres.etype = "OutOfBound"
                 /\ gmap = gcall.before

C19_Witness ==
    /\ gcall.made /\ gmap # NoObj
    /\ gmap.bank = "Bank1" /\ gcall.n = 45 /\ gres = ResOk
    /\ gmap.gpios[18] = gcall.gpio /\ gcall.before.gpios[18] # gcall.gpio

\* C20: whenever set(index, pin) fails, the GpioError names the index as the
\* caller passed it (gpio_no = index) and the bank of the map, for both banks
\* and for indices below and above the span of the bank.
C20_RangeErrorContent ==
    gcall.made /\ gres.kind = "GpioError" =>
        /\ gres.gpio_no = gcall.n
        /\ gres.bank = gmap.bank

(***************************************************************************)
(* C21..C30                                                                *)
(***************************************************************************)
\* what the validation policy forbids in the pin list l of a bank
HasReserved(l) == \E i \in 1 .. Len(l) : l[i].gpio \in { 0, 1 }
HasOutOfRange(l, b) ==
    \E i \in 1 .. Len(l) :
        IF b = "Bank0" THEN l[i].gpio \notin 2 .. 27 ELSE l[i].gpio \notin 28 .. 45
HasDuplicate(l) == \E i, j \in 1 .. Len(l) : i < j /\ l[i].gpio = l[j].gpio
Forbidden(l, b) == HasReserved(l) \/ HasOutOfRange(l, b) \/ HasDuplicate(l)

WirePullOf(p) == IF p = "None" THEN "NoPull" ELSE p

\* C26: for every bank selector and pin list that GpioBank::validate accepts,
\* into_gpio_map returns Ok, and in the map exactly the configured indices
\* hold a pin with used = 1 and the configured function and pull, while every
\* other pin (0 and 1 of Bank0 among them) is (Input, Default, unused) and
\* encodes to 0x00.
C26_ValidatedBankMaps ==
    (config.kind = "GpioBank" /\ outcome = ResOk /\ gres # ResNone) =>
        /\ gres = ResOk
        /\ gmap # NoObj
        /\ gmap.bank = config.bank_no
        /\ LET l == config.bank.gpios
               base == IF config.bank_no = "Bank0" THEN 0 ELSE 28
               size == IF config.bank_no = "Bank0" THEN 28 ELSE 18
           IN  /\ Len(gmap.gpios) = size
               /\ \A i \in 1 .. Len(l) : l[i].gpio - base \in 0 .. size - 1
               /\ \A k \in 0 .. size - 1 :
                     LET at == { i \in 1 .. Len(l) : l[i].gpio = k + base }
                     IN  IF at = { }
                         THEN /\ gmap.gpios[k + 1] = [fsel |-> "Input", pull |-> "Default", used |-> FALSE]
                              /\ ser.made => buf[2 + k + 1] = 0
                         ELSE /\ \A i \in at :
                                    gmap.gpios[k + 1] =
                                        [fsel |-> l[i].fsel, pull |-> WirePullOf(l[i].pull), used |-> TRUE]
                              /\ ser.made => buf[2 + k + 1] >= 128

C26_Witness ==
    /\ config.kind = "GpioBank" /\ outcome = ResOk /\ gres = ResOk /\ ser.made
    /\ config.bank_no = "Bank1"
    /\ Len(config.bank.gpios) = 2
    /\ config.bank.gpios[1].gpio = 45 /\ config.bank.gpios[2].gpio = 28
    /\ buf[20] = 231 /\ buf[3] >= 128 /\ buf[4] = 0

\* the slot of a map that set(n, ..) addresses
SlotOf(map, n) == IF map.bank = "Bank0" THEN n + 1 ELSE n - 28 + 1

\* C25: a successful set(index, pin) replaces the pin at that index
\* (index-28 for Bank1) and leaves every other pin and the drive, slew,
\* hysteresis and back-power of the bank as they were; a failed set leaves
\* the whole map as it was; a set on an index that was set before is accepted
\* and the later pin replaces the earlier one.
C25_SetFrame ==
    (gcall.made /\ gmap # NoObj /\ config = NoObj) =>
        LET b == gcall.before
        IN  /\ gmap.bank = b.bank /\ gmap.drive = b.drive /\ gmap.slew = b.slew
            /\ gmap.hysteresis = b.hysteresis /\ gmap.back_power = b.back_power
            /\ Len(gmap.gpios) = Len(b.gpios)
            /\ gres = ResOk =>
                  /\ SlotOf(b, gcall.n) \in 1 .. Len(b.gpios)
                  /\ gmap.gpios[SlotOf(b, gcall.n)] = gcall.gpio
                  /\ \A k \in 1 .. Len(b.gpios) :
                        k # SlotOf(b, gcall.n) => gmap.gpios[k] = b.gpios[k]
            /\ gres # ResOk => \A k \in 1 .. Len(b.gpios) : gmap.gpios[k] = b.gpios[k]
            /\ (SlotOf(b, gcall.n) \in 1 .. Len(b.gpios)
                  /\ b.gpios[SlotOf(b, gcall.n)] # [fsel |-> "Input", pull |-> "Default", used |-> FALSE])
                 => gres = ResOk

C25_Witness ==
    /\ gcall.made /\ gmap # NoObj /\ config = NoObj
    /\ gcall.nth = 2 /\ gres = ResOk /\ gmap.bank = "Bank1" /\ gcall.n = 30
    /\ gcall.before.gpios[3].used /\ ~gmap.gpios[3].used
    /\ gmap.gpios[3] = gcall.gpio

\* C23: EepAtomVendorData::new returns Ok exactly when the vendor string and
\* the product string are both at most 255 bytes long (255 is accepted, 256 in
\* either field is rejected); the strings are never truncated, so both
\* lengths of a constructed value fit one unsigned byte and to_bytes writes
\* them without failing.
C23_VendorStringLimit ==
    (config.kind = "VendorArgs" /\ outcome # ResNone) =>
        /\ (outcome.kind = "Ok") = (Len(config.vstr) <= 255 /\ Len(config.pstr) <= 255)
        /\ (outcome.kind = "EepError") = (Len(config.vstr) >= 256 \/ Len(config.pstr) >= 256)
        /\ outcome.kind = "Ok" =>
              /\ outcome.data.vstr = config.vstr /\ outcome.data.pstr = config.pstr
              /\ Len(outcome.data.vstr) \in 0 .. 255 /\ Len(outcome.data.pstr) \in 0 .. 255
        /\ ser.made =>
              /\ ~ser.panic
              /\ buf[Len(ser.prefix) + 21] = Len(config.vstr)
              /\ buf[Len(ser.prefix) + 22] = Len(config.pstr)

C23_Witness ==
    /\ config.kind = "VendorArgs" /\ outcome.kind = "Ok" /\ ser.made
    /\ Len(config.vstr) = 255 /\ Len(config.pstr) = 255
    /\ Len(buf) = Len(ser.prefix) + 532

\* C24: the VendorInfo payload is the 16 UUID bytes in reversed order,
\* product_id and product_version as little-endian u16, one byte with the
\* byte length of the vendor string, one with that of the product string,
\* then the bytes of the vendor string and of the product string:
\* 22 + vendor length + product length bytes.
C24_VendorLayout ==
    (config.kind = "VendorArgs" /\ ser.made /\ ~ser.panic) =>
        LET p == Len(ser.prefix)
            v == Len(config.vstr)
            q == Len(config.pstr)
        IN  /\ Len(buf) = p + 22 + v + q
            /\ ser.len = 22 + v + q
            /\ \A i \in 1 .. 16 : buf[p + i] = config.uuid[17 - i]
            /\ U16At(buf, p + 16) = config.pid
            /\ U16At(buf, p + 18) = config.pver
            /\ buf[p + 21] = v
            /\ buf[p + 22] = q
            /\ SubSeq(buf, p + 23, p + 22 + v) = config.vstr
            /\ SubSeq(buf, p + 23 + v, p + 22 + v + q) = config.pstr

C24_Witness ==
    /\ config.kind = "VendorArgs" /\ ser.made /\ ~ser.panic
    /\ ser.prefix # << >>
    /\ Len(config.vstr) = 1 /\ Len(config.pstr) = 254 /\ config.pid = 666
    /\ buf[Len(ser.prefix) + 1] = 200 /\ buf[Len(ser.prefix) + 16] = 103
    /\ buf[Len(ser.prefix) + 17] = 154 /\ buf[Len(ser.prefix) + 18] = 2

(***************************************************************************)
(* rpi-eep/src/gpio_map.rs: the earlier GPIO map encoder                   *)
(***************************************************************************)
EarlyMaxGpios == 28

\* `self.fsel as u8`, `self.pull as u8` of the earlier enums
EarlyFselCode(f) ==
    CASE f = "Input" -> 0 [] f = "Output" -> 1
      [] f = "Alt0" -> 4 [] f = "Alt1" -> 5 [] f = "Alt2" -> 6 [] f = "Alt3" -> 7
      [] f = "Alt4" -> 3 [] f = "Alt5" -> 2

EarlyPullCode(p) ==
    CASE p = "Default" -> 0 [] p = "Up" -> 1 [] p = "Down" -> 2 [] p = "None" -> 3

\* GpioPin::new of the earlier encoder
EarlyGpioPinNew == [fsel |-> "Input", pull |-> "None", used |-> FALSE]

\* GpioPin::to_buffer of the earlier encoder
EarlyPinToBuffer(p) ==
    BitOr(BitOr(BitAnd(EarlyFselCode(p.fsel), 7),
                AsU8(BitAnd(EarlyPullCode(p.pull), 3) * 32)),
          AsU8((IF p.used THEN 1 ELSE 0) * 128))

\* the struct as the test of the file builds it: 28 fresh pins
EarlyGpioMap(drive, slew, hysteresis, back_power) ==
    [kind |-> "EarlyGpioMap", drive |-> drive, slew |-> slew,
     hysteresis |-> hysteresis, back_power |-> back_power,
     gpios |-> [i \in 1 .. EarlyMaxGpios |-> EarlyGpioPinNew]]

\* `(drive & 0x0f) | (slew & 0x30) << 4 | (hyst & 0xc0) << 6` on u8
EarlyBankDrive(drive, slew, hyst) ==
    BitOr(BitOr(BitAnd(drive, 15), AsU8(BitAnd(slew, 48) * 16)),
          AsU8(BitAnd(hyst, 192) * 64))

\* <EEPAtomGpioMapData as ToBuffer>::len
EarlyMapLen(map) == 1 + 1 + 28

\* <EEPAtomGpioMapData as ToBuffer>::to_buffer
EarlyMapToBuffer(map, b) ==
    b \o << EarlyBankDrive(map.drive, map.slew, map.hysteresis) >>
      \o << BitAnd(map.back_power, 3) >>
      \o [i \in 1 .. Len(map.gpios) |-> EarlyPinToBuffer(map.gpios[i])]

EarlyMaps ==
    { EarlyGpioMap(d, sl, h, p) :
        d \in GpioDrive, sl \in GpioSlew, h \in GpioHysteresis, p \in GpioBackPower }

InitEarly ==
    /\ NoEep
    /\ NoCfg
    /\ obj = NoObj
    /\ gmap \in EarlyMaps
    /\ gres = ResNone
    /\ gcall = NoCall
    /\ gpioPin = NoObj
    /\ packed = NoPacked
    /\ buf \in Prefixes
    /\ ser = NoSer

\* map.to_buffer(&mut buf)
EarlyToBuffer ==
    /\ ~ser.made
    /\ gmap.kind = "EarlyGpioMap"
    /\ buf' = EarlyMapToBuffer(gmap, buf)
    /\ ser' = [made |-> TRUE, prefix |-> buf, len |-> EarlyMapLen(gmap)]
    /\ UNCHANGED << obj >>
    /\ UNCHANGED gpioVars
    /\ UNCHANGED eepVars
    /\ UNCHANGED cfgVars

NextEarly == EarlyToBuffer

SpecEarly == InitEarly /\ [][NextEarly]_vars

(***************************************************************************)
(* C30                                                                     *)
(***************************************************************************)
\* C30: the bank_drive byte that the earlier encoder's to_buffer writes is
\* drive in bits [3:0], slew in bits [5:4] and hysteresis in bits [7:6], for
\* every drive 0..8, slew 0..2 and hysteresis 0..2.
C30_EarlyBankDriveLayout ==
    (ser.made /\ gmap.kind = "EarlyGpioMap") =>
        LET b == buf[Len(ser.prefix) + 1]
        IN  /\ b % 16 = gmap.drive
            /\ (b \div 16) % 4 = gmap.slew
            /\ (b \div 64) % 4 = gmap.hysteresis

\* what the earlier encoder does write: the drive alone; the rest of the
\* layout (back_power byte, one byte per pin, 30 bytes) is as documented
C30_EarlyBankDriveIsDriveOnly ==
    (ser.made /\ gmap.kind = "EarlyGpioMap") =>
        /\ buf[Len(ser.prefix) + 1] = gmap.drive
        /\ buf[Len(ser.prefix) + 2] = gmap.back_power
        /\ Len(buf) = Len(ser.prefix) + ser.len
        /\ SubSeq(buf, 1, Len(ser.prefix)) = ser.prefix

C30_Reached ==
    /\ ser.made
    /\ gmap.kind = "EarlyGpioMap"
    /\ gmap.slew = 2
    /\ gmap.hysteresis = 1
    /\ buf[Len(ser.prefix) + 1] = gmap.drive

(***************************************************************************)
(* C21..C30, continued                                                     *)
(***************************************************************************)
\* C29: push is append-only.  A push that returns Ok makes the stream one
\* atom longer and puts the pushed atom (type and payload as passed) last;
\* after any push every atom that was in the stream is at the same index with
\* the same type, sequence number and payload, so the stream before the call
\* is a prefix of the stream after it; and every stream reached from Eep::new
\* holds at least two atoms.
C29_AppendOnly ==
    /\ VecLen(atoms) >= 2
    /\ call.made =>
         LET n == VecLen(call.before)
         IN  /\ VecLen(atoms) >= n
             /\ \A i \in 0 .. (n - 1) : AtomAt(atoms, i) = AtomAt(call.before, i)
             /\ result.kind = "Ok" =>
                  /\ VecLen(atoms) = n + 1
                  /\ AtomAt(atoms, n).atype = call.atom.atype
                  /\ AtomAt(atoms, n).data = call.atom.data
                  /\ VecLast(atoms) = AtomAt(atoms, n)

C29_Witness ==
    /\ call.made /\ result.kind = "Ok"
    /\ VecLen(call.before) = 3
    /\ VecLen(atoms) = 4
    /\ AtomAt(atoms, 2) = AtomAt(call.before, 2)
    /\ AtomAt(atoms, 3).atype = "ManufCustomData"

(***************************************************************************)
(* revpi-hat-eep/src/lib.rs: the configuration and its template            *)
(***************************************************************************)
\* Option<T>: None, Some(x)
None == NoObj
Some(x) == [kind |-> "Some", val |-> x]

\* struct TemplateDefinition
TemplateDefinition(version, eeprom_data_version, gpiobanks) ==
    [version |-> version, eeprom_data_version |-> eeprom_data_version,
     gpiobanks |-> gpiobanks]

\* enum TemplateInclude: Object(def), or Filename(name) with what the file
\* of that name holds when from_file reads it (None: the read or parse fails)
IncludeObject(def) == [kind |-> "Object", def |-> def]
IncludeFilename(file) == [kind |-> "Filename", file |-> file]

\* Err(Box::new(ValidationError(msg))), Err(io or serde error)
ErrBox(why) == [kind |-> "Err", why |-> why]

\* the RevPiHatEeprom built from the raw definition and a list of banks
RevPiHatEepromOf(raw, gpiobanks) ==
    [version |-> raw.version, eeprom_data_version |-> raw.eeprom_data_version,
     vstr |-> raw.vstr, pstr |-> raw.pstr, pid |-> raw.pid, prev |-> raw.prev,
     pver |-> raw.pver, dtstr |-> raw.dtstr, serial |-> raw.serial,
     edate |-> raw.edate, mac |-> raw.mac, gpiobanks |-> gpiobanks]

\* RevPiHatEeprom::validate.  The test `dtstr.len() >= u32::MAX` needs a
\* string of 4 GiB and is false for every string of the inputs.
RevPiHatEepromValidate(c) ==
    IF c.version # 1 THEN ErrValidation("Version", c.version)
    ELSE IF Len(c.pstr) >= 256 THEN ErrValidation("ProductString", Len(c.pstr))
    ELSE IF Len(c.vstr) >= 256 THEN ErrValidation("VendorString", Len(c.vstr))
    ELSE IF Len(c.gpiobanks) = 0 \/ Len(c.gpiobanks) > 2
    THEN ErrValidation("BankCount", Len(c.gpiobanks))
    ELSE LET r0 == GpioBankValidate(c.gpiobanks[1], "Bank0")
         IN  IF r0 # ResOk THEN r0
             ELSE IF Len(c.gpiobanks) > 1
             THEN GpioBankValidate(c.gpiobanks[2], "Bank1")
             ELSE ResOk

\* FromRawDefinition with validate called on both paths: under it every Ok
\* configuration is validated and create_rpi_eep cannot panic
FromRawDefinitionValidatesAll(raw) ==
    IF raw.include = None
    THEN IF raw.gpiobanks # None
         THEN LET definition == RevPiHatEepromOf(raw, raw.gpiobanks.val)
                  v == RevPiHatEepromValidate(definition)
              IN  IF v # ResOk THEN [kind |-> "Err", why |-> v]
                  ELSE [kind |-> "Ok", val |-> definition]
         ELSE ErrBox("Definition requires gpiobanks attribute")
    ELSE IF raw.gpiobanks # None
    THEN ErrBox("All fields of the template are overridden")
    ELSE IF raw.include.kind = "Filename" /\ raw.include.file = None
    THEN ErrBox("from_file")
    ELSE LET def == IF raw.include.kind = "Filename" THEN raw.include.file.val
                    ELSE raw.include.def
         IN  IF raw.version # def.version
                \/ raw.eeprom_data_version # def.eeprom_data_version
             THEN ErrBox("Version fields of definition and template have to match")
             ELSE LET definition == RevPiHatEepromOf(raw, def.gpiobanks)
                      v == RevPiHatEepromValidate(definition)
                  IN  IF v # ResOk THEN [kind |-> "Err", why |-> v]
                      ELSE [kind |-> "Ok", val |-> definition]

\* RevPiHatEeprom::from_raw_definition
FromRawDefinition(raw) ==
    IF raw.include = None
    THEN IF raw.gpiobanks # None
         THEN [kind |-> "Ok", val |-> RevPiHatEepromOf(raw, raw.gpiobanks.val)]
         ELSE ErrBox("Definition requires gpiobanks attribute")
    ELSE IF raw.gpiobanks # None
    THEN ErrBox("All fields of the template are overridden")
    ELSE IF raw.include.kind = "Filename" /\ raw.include.file = None
    THEN ErrBox("from_file")
    ELSE LET def == IF raw.include.kind = "Filename" THEN raw.include.file.val
                    ELSE raw.include.def
         IN  IF raw.version # def.version
                \/ raw.eeprom_data_version # def.eeprom_data_version
             THEN ErrBox("Version fields of definition and template have to match")
             ELSE LET definition == RevPiHatEepromOf(raw, def.gpiobanks)
                      v == RevPiHatEepromValidate(definition)
                  IN  IF v # ResOk THEN [kind |-> "Err", why |-> v]
                      ELSE [kind |-> "Ok", val |-> definition]

(***************************************************************************)
(* revpi-hat-eep/src/bin/revpi-eep.rs: create_rpi_eep and main             *)
(***************************************************************************)
\* ASCII
Digit(d) == 48 + d
HexDigit(h) == IF h < 10 THEN 48 + h ELSE 55 + h

\* <u16 / u32 as ToString>::to_string().into_bytes()
RECURSIVE IntToString(_)
IntToString(n) ==
    IF n < 10 THEN << Digit(n) >> ELSE IntToString(n \div 10) \o << Digit(n % 10) >>

\* n in decimal, padded with zeros to w digits
RECURSIVE Padded(_, _)
Padded(n, w) == IF w = 0 THEN << >> ELSE Padded(n \div 10, w - 1) \o << Digit(n % 10) >>

\* NaiveDate::to_string(): YYYY-MM-DD
DateToString(d) == Padded(d.y, 4) \o << 45 >> \o Padded(d.m, 2) \o << 45 >> \o Padded(d.d, 2)

\* MacAddr6::to_string(): XX:XX:XX:XX:XX:XX
RECURSIVE MacToString(_)
MacToString(mac) ==
    IF mac = << >> THEN << >>
    ELSE << HexDigit(Head(mac) \div 16), HexDigit(Head(mac) % 16) >>
           \o (IF Len(mac) > 1 THEN << 58 >> ELSE << >>) \o MacToString(Tail(mac))

\* calc_uuid: the MD5 digest of pid, pver, prev and serial with the version
\* and variant bits of a name-based UUID.  The digest is not computed: the
\* result is any one of these values.
Md5Uuids ==
    { << 103, 229, 80, 68, 16, 177, 50, 111, 146, 71, 187, 104, 14, 95, 224, 200 >>,
      << 0, 255, 0, 255, 0, 255, 63, 255, 191, 255, 0, 255, 0, 255, 0, 255 >> }

\* `Option::expect("BUG: Missing ..")` on None, `config.gpiobanks[0]` on an
\* empty vector
PanicAt(where) == [kind |-> "Panic", at |-> where]

\* `eep.push(atom)?` for the atoms of the list from i on
RECURSIVE PushAll(_, _, _)
PushAll(v, list, i) ==
    IF i > Len(list) THEN [atoms |-> v, result |-> ResOk]
    ELSE LET r == EepPush(v, list[i])
         IN  IF r.result.kind = "Ok" THEN PushAll(r.atoms, list, i + 1)
             ELSE [atoms |-> EmptyVec, result |-> r.result]

\* the device tree atom and the seven custom atoms, in the order pushed
FixedAtoms(c) ==
    << NewLinuxDtb(LinuxDTBDataNew("Name", c.dtstr)),
       NewCustom(EepAtomCustomDataNew(IntToString(c.version))),
       NewCustom(EepAtomCustomDataNew(IntToString(c.serial.val))),
       NewCustom(EepAtomCustomDataNew(IntToString(c.prev))),
       NewCustom(EepAtomCustomDataNew(DateToString(c.edate.val))),
       NewCustom(EepAtomCustomDataNew(<< 48 >>)),
       NewCustom(EepAtomCustomDataNew(MacToString(c.mac.val))),
       NewCustom(EepAtomCustomDataNew(IntToString(c.eeprom_data_version))) >>

\* mutant of CreateRpiEep: the map of the second bank is pushed directly
\* after Eep::new, before the device tree atom
CreateRpiEepBank1Early(c, uuid) ==
    IF c.serial = None \/ c.edate = None \/ c.mac = None
    THEN [atoms |-> EmptyVec, result |-> PanicAt("expect")]
    ELSE LET vd == VendorDataNew(uuid, c.pid, c.pver, c.vstr, c.pstr)
         IN  IF ~vd.ok THEN [atoms |-> EmptyVec,
                             result |-> [kind |-> "EepError", err |-> vd.err]]
             ELSE IF Len(c.gpiobanks) = 0
             THEN [atoms |-> EmptyVec, result |-> PanicAt("config.gpiobanks[0]")]
             ELSE LET m0 == GpioBankIntoGpioMap(c.gpiobanks[1], "Bank0")
                  IN  IF m0.res # ResOk THEN [atoms |-> EmptyVec, result |-> m0.res]
                      ELSE IF Len(c.gpiobanks) > 1
                      THEN LET m1 == GpioBankIntoGpioMap(c.gpiobanks[2], "Bank1")
                           IN  IF m1.res # ResOk
                               THEN [atoms |-> EmptyVec, result |-> m1.res]
                               ELSE PushAll(EepNew(vd.data, m0.map),
                                            << NewGpioBank1Map(m1.map) >> \o FixedAtoms(c), 1)
                      ELSE PushAll(EepNew(vd.data, m0.map), FixedAtoms(c), 1)

\* create_rpi_eep(config): the Eep and Ok, or no Eep and the error, or a panic
CreateRpiEep(c, uuid) ==
    IF c.serial = None \/ c.edate = None \/ c.mac = None
    THEN [atoms |-> EmptyVec, result |-> PanicAt("expect")]
    ELSE LET vd == VendorDataNew(uuid, c.pid, c.pver, c.vstr, c.pstr)
         IN  IF ~vd.ok THEN [atoms |-> EmptyVec,
                             result |-> [kind |-> "EepError", err |-> vd.err]]
             ELSE IF Len(c.gpiobanks) = 0
             THEN [atoms |-> EmptyVec, result |-> PanicAt("config.gpiobanks[0]")]
             ELSE LET m0 == GpioBankIntoGpioMap(c.gpiobanks[1], "Bank0")
                  IN  IF m0.res # ResOk THEN [atoms |-> EmptyVec, result |-> m0.res]
                      ELSE LET r == PushAll(EepNew(vd.data, m0.map), FixedAtoms(c), 1)
                           IN  IF r.result # ResOk THEN r
                               ELSE IF Len(c.gpiobanks) > 1
                               THEN LET m1 == GpioBankIntoGpioMap(c.gpiobanks[2], "Bank1")
                                    IN  IF m1.res # ResOk
                                        THEN [atoms |-> EmptyVec, result |-> m1.res]
                                        ELSE PushAll(r.atoms, << NewGpioBank1Map(m1.map) >>, 1)
                               ELSE r

\* main: the value of serial, edate or mac; the command line goes first
Pick(cli, cfg) == IF cli # None THEN cli ELSE cfg

(***************************************************************************)
(* One run of the tool: the raw definition the configuration file parses   *)
(* to and the command line; from_config_str, the fields main fills in,     *)
(* create_rpi_eep, to_bytes                                                *)
(***************************************************************************)
\* a configuration lists 0 .. MaxBanks banks
MaxBanks == 3

Bank0Definitions ==
    { CfgGpioBankNew("Drive8mA", "Default", "Enable",
                     << CfgGpioPin(2, "Alt0", "Up"), CfgGpioPin(27, "Input", "None") >>),
      CfgGpioBankNew("Default", "Default", "Default", << CfgGpioPin(0, "Alt0", "Up") >>),
      CfgGpioBankNew("Default", "NoLimit", "Default", << CfgGpioPin(28, "Output", "Down") >>) }

Bank1Definitions ==
    { CfgGpioBankNew("Drive2mA", "RateLimiting", "Disable",
                     << CfgGpioPin(28, "Alt5", "Down"), CfgGpioPin(45, "Output", "Default") >>),
      CfgGpioBankNew("Default", "Default", "Default", << CfgGpioPin(5, "Input", "Up") >>) }

\* lists of n banks: a first, a second, and further ones like the second
RECURSIVE BankLists(_)
BankLists(n) ==
    IF n = 0 THEN { << >> }
    ELSE IF n = 1 THEN { << b >> : b \in Bank0Definitions }
    ELSE { Append(l, b) : l \in BankLists(n - 1), b \in Bank1Definitions }

AllBankLists == UNION { BankLists(n) : n \in 0 .. MaxBanks }

Templates ==
    { TemplateDefinition(v, 3, l) : v \in { 1, 2 }, l \in AllBankLists }

Includes ==
    { IncludeObject(t) : t \in Templates }
      \cup { IncludeFilename(Some(t)) : t \in Templates }
      \cup { IncludeFilename(None) }

\* gpiobanks and include of the raw definition
BanksAndInclude ==
    { << Some(l), None >> : l \in AllBankLists }
      \cup { << g, i >> : g \in { None, Some(<< >>) }, i \in Includes }
      \cup { << None, None >> }

LongString == StrOf(U8_MAX + 1, 97)

\* version, vstr, pstr
VersionAndStrings ==
    { << 1, StrOf(U8_MAX, 75), << 80 >> >>, << 2, << 75 >>, << 80 >> >>,
      << 1, LongString, << 80 >> >>, << 1, << 75 >>, LongString >> }

SampleDate == [y |-> 2024, m |-> 2, d |-> 9]
SampleMac == << 200, 62, 167, 0, 1, 175 >>

\* a value in the file and on the command line: neither, one, or both
SerialCases == { << None, None >>, << Some(4711), None >>, << Some(4711), Some(65536) >> }
MacCases == { << None, None >>, << Some(SampleMac), None >>, << None, Some(SampleMac) >> }
EdateCases == { << None, None >>, << Some(SampleDate), None >> }

\* chrono::Local::now().date_naive()
Today == [y |-> 2026, m |-> 11, d |-> 1]

MainInputs ==
    { [kind |-> "Main",
       raw |-> [version |-> vs[1], eeprom_data_version |-> 3, vstr |-> vs[2],
                pstr |-> vs[3], pid |-> 666, prev |-> 2, pver |-> 120,
                dtstr |-> << 114, 101, 118, 112, 105 >>,
                serial |-> s[1], edate |-> e[1], mac |-> mc[1],
                gpiobanks |-> bi[1], include |-> bi[2]],
       cli |-> [serial |-> s[2], edate |-> e[2], mac |-> mc[2]]] :
        vs \in VersionAndStrings, s \in SerialCases, e \in EdateCases,
        mc \in MacCases, bi \in BanksAndInclude }

InitMain ==
    /\ NoEep
    /\ NoGpio
    /\ obj = NoObj
    /\ buf = << >>
    /\ ser = NoSer
    /\ config \in MainInputs
    /\ outcome = ResNone

\* RevPiHatEeprom::from_config_str(template_dir, &config): the string parses
\* to config.raw
FromConfigStr ==
    /\ config.kind = "Main"
    /\ outcome = ResNone
    /\ outcome' = FromRawDefinition(config.raw)
    /\ UNCHANGED << config, buf, ser, obj >>
    /\ UNCHANGED eepVars
    /\ UNCHANGED gpioVars

\* main, from the Ok of from_config_str to `config.mac = Some(mac)`: exit(1)
\* when serial or mac is given nowhere
FillIn ==
    /\ config.kind = "Main"
    /\ outcome.kind = "Ok"
    /\ LET serial == Pick(config.cli.serial, outcome.val.serial)
           edate == Pick(config.cli.edate, outcome.val.edate)
           mac == Pick(config.cli.mac, outcome.val.mac)
       IN  outcome' =
             IF serial = None \/ mac = None THEN [kind |-> "Exit", code |-> 1]
             ELSE [kind |-> "Filled",
                   val |-> [outcome.val EXCEPT
                              !.serial = serial,
                              !.edate = IF edate = None THEN Some(Today) ELSE edate,
                              !.mac = mac]]
    /\ UNCHANGED << config, buf, ser, obj >>
    /\ UNCHANGED eepVars
    /\ UNCHANGED gpioVars

\* create_rpi_eep(config) in main
CallCreateRpiEep(uuid) ==
    /\ config.kind = "Main"
    /\ outcome.kind = "Filled"
    /\ result = ResNone
    /\ LET r == CreateRpiEep(outcome.val, uuid)
       IN  atoms' = r.atoms /\ result' = r.result
    /\ UNCHANGED << call, buf, ser, obj >>
    /\ UNCHANGED cfgVars
    /\ UNCHANGED gpioVars

\* `let mut buf = Vec::new(); eep.to_bytes(&mut buf)` in main
MainToBytes ==
    /\ config.kind = "Main"
    /\ result = ResOk
    /\ ~ser.made
    /\ IF VendorDataToBytesPanics(AtomAt(atoms, 0).data)
       THEN /\ ser' = [made |-> TRUE, prefix |-> << >>, atoms |-> atoms, panic |-> TRUE]
            /\ UNCHANGED buf
       ELSE /\ ser' = [made |-> TRUE, prefix |-> << >>, atoms |-> atoms, panic |-> FALSE]
            /\ buf' = EepToBytes(atoms, << >>)
    /\ UNCHANGED << obj >>
    /\ UNCHANGED eepVars
    /\ UNCHANGED cfgVars
    /\ UNCHANGED gpioVars

NextMain ==
    \/ FromConfigStr
    \/ FillIn
    \/ \E uuid \in Md5Uuids : CallCreateRpiEep(uuid)
    \/ MainToBytes

SpecMain == InitMain /\ [][NextMain]_vars

(***************************************************************************)
(* C22, C27, C28                                                           *)
(***************************************************************************)
\* what a fully validated configuration is: format version 1, vendor and
\* product string of at most 255 bytes, one or two banks, nothing forbidden
\* in the first bank as Bank0 and in the second as Bank1
FullyValidated(c) ==
    /\ c.version = 1
    /\ Len(c.vstr) <= 255
    /\ Len(c.pstr) <= 255
    /\ Len(c.gpiobanks) \in { 1, 2 }
    /\ ~Forbidden(c.gpiobanks[1].gpios, "Bank0")
    /\ Len(c.gpiobanks) = 2 => ~Forbidden(c.gpiobanks[2].gpios, "Bank1")

\* C22: every configuration that from_raw_definition (from_config_str)
\* returns Ok, with or without a template include, is fully validated.
C22_OnlyValidatedConfigs ==
    (config.kind = "Main" /\ outcome.kind = "Ok") => FullyValidated(outcome.val)

\* the part of C22 that holds: with a template include, Ok means validated
C22_ValidatedWithInclude ==
    (config.kind = "Main" /\ outcome.kind = "Ok" /\ config.raw.include # None)
        => /\ FullyValidated(outcome.val)
           /\ RevPiHatEepromValidate(outcome.val) = ResOk

\* the stream create_rpi_eep builds for a configuration with n banks
ExpectedTypes(n) ==
    << "VendorInfo", "GpioBank0Map", "LinuxDTB" >>
      \o [i \in 1 .. 7 |-> "ManufCustomData"]
      \o (IF n > 1 THEN << "GpioBank1Map" >> ELSE << >>)

\* C27: create_rpi_eep never gets WrongAtomOrder from push, and the stream it
\* returns for a configuration with one or two banks is VendorInfo,
\* GpioBank0Map, LinuxDTB, seven ManufCustomData and, exactly when there is a
\* second bank, a GpioBank1Map last: 10 or 11 atoms numbered 0..9 or 0..10.
C27_CreateOrder ==
    (config.kind = "Main" /\ result # ResNone) =>
        /\ result.kind # "WrongAtomOrder"
        /\ (result = ResOk /\ Len(outcome.val.gpiobanks) \in { 1, 2 }) =>
             LET n == Len(outcome.val.gpiobanks)
                 types == ExpectedTypes(n)
             IN  /\ VecLen(atoms) = 9 + n
                 /\ Len(types) = 9 + n
                 /\ \A i \in 0 .. (VecLen(atoms) - 1) :
                      /\ AtomAt(atoms, i).atype = types[i + 1]
                      /\ AtomAt(atoms, i).count = i

C27_Witness ==
    /\ config.kind = "Main" /\ result = ResOk
    /\ Len(outcome.val.gpiobanks) = 2
    /\ VecLen(atoms) = 11
    /\ AtomAt(atoms, 10).atype = "GpioBank1Map"
    /\ AtomAt(atoms, 10).count = 10
    /\ ser.made

\* C28: for every configuration from_config_str returned Ok, with serial,
\* end-test date and MAC filled in as main does, create_rpi_eep and to_bytes
\* end in Ok or in a structured Err: nothing panics.
C28_NoPanic ==
    config.kind = "Main" =>
        /\ result.kind # "Panic"
        /\ ser.made => ~ser.panic

\* the parts of C28 that hold: the only panic is the index into an empty
\* list of banks; the expects of create_rpi_eep and push and the unwraps of
\* the vendor encoder are not reached, and a fully validated configuration
\* always gives Ok
C28_OnlyTheBankIndexPanics ==
    config.kind = "Main" =>
        /\ result.kind = "Panic" =>
             /\ result = PanicAt("config.gpiobanks[0]")
             /\ outcome.val.gpiobanks = << >>
             /\ config.raw.include = None
        /\ ser.made => ~ser.panic
        /\ (result # ResNone /\ FullyValidated(outcome.val)) => result = ResOk
        /\ result.kind \in { "None", "Ok", "Panic", "EepError", "GpioError" }

C28_PanicReached ==
    /\ config.kind = "Main"
    /\ result = PanicAt("config.gpiobanks[0]")
    /\ config.raw.version = 1

====
